---------------------------- MODULE Spec2Model ----------------------------
(***************************************************************************)
(* The finding deduplication and consolidation engine of autoengineer      *)
(* (go/internal/findings/merge.go): Merge, deduplicate, shouldMerge,       *)
(* calculateSimilarity, tokenSimilarity, tokenize, normalizeToken,         *)
(* calculateFileOverlap, mergeFindings and the BySeverity ordering.        *)
(*                                                                         *)
(* Go strings are modelled as sequences of one-character strings, so that  *)
(* tokenisation, suffix stripping, substring tests and byte-wise sorting   *)
(* are computed as the code computes them.  float64 scores are modelled as *)
(* exact rationals [num, den]; the weights and the threshold are kept in   *)
(* hundredths.                                                             *)
(***************************************************************************)
EXTENDS Integers, Sequences, FiniteSets, TLC

VARIABLES
    findingArrays,  \* the variadic argument of Merge
    all,            \* Merge: the concatenated input list
    pc,             \* position inside Merge / deduplicate
    i,              \* deduplicate: outer loop index (1-based)
    j,              \* deduplicate: inner loop index (1-based)
    merged,         \* deduplicate: indices already merged into a base
    base,           \* deduplicate: the finding accumulated for index i
    result,         \* deduplicate: the output list (sorted by Merge)
    members,        \* history: indices of all absorbed into base
    clusters,       \* history: clusters[k] = indices of all absorbed into result[k]
    run,            \* 1: Merge of the input, 2: Merge of the first call's output
    first           \* the list returned by the first call of Merge

VARIABLES
    enabledScopes,   \* runAnalysis: the scopes that are not disabled, in scope order
    analyzerRun,     \* what analyzer.Run returns for each scope
    skipScanners,    \* runAnalysisWithScanners: the skipScanners argument
    enabledScanners, \* RunAll: the scanners that are enabled, in scanner order
    scannerRun,      \* what Scanner.Run returns for each scanner
    apc,             \* position of each goroutine of the analysis
    resultCh,        \* runAnalysis: the channel of scope results
    allResults,      \* runAnalysis: the results in the order received
    results,         \* RunAll: the channel of scan results
    scanFindings,    \* RunAll: allFindings, the findings collected so far
    copilotCh,       \* runAnalysisWithScanners: the channel of the Copilot result
    scannerCh,       \* runAnalysisWithScanners: the channel of the scanner result
    ret              \* what runAnalysisWithScanners returns

VARIABLES
    deduplicator,    \* MergeWithContext: the deduplicator argument, "nil" if absent
    err,             \* MergeWithContext: whether Deduplicate returned an error
    stdout           \* Client.RunAnalysis: the lines the command wrote, if it ran

VARIABLES
    heap             \* the backing arrays of all slices: heap[a] is the array a

VARIABLES
    issueNums,       \* delegateIssues: the issues of the run still to visit
    labeled,         \* GitHub: the issues that carry the delegated label
    assigned         \* GitHub: per issue, the assignments of the coding agent made

VARIABLES
    cfg,             \* Filter: the ignore configuration
    ignoredCount     \* Filter: the findings dropped so far

mergeVars ==
    <<findingArrays, all, pc, i, j, merged, base, result, members, clusters, run, first>>

analysisVars ==
    <<enabledScopes, analyzerRun, skipScanners, enabledScanners, scannerRun, apc,
      resultCh, allResults, results, scanFindings, copilotCh, scannerCh, ret>>

contextVars == <<deduplicator, err, stdout>>

filterVars == <<cfg, ignoredCount>>

delegationVars == <<issueNums, labeled, assigned>>

vars == <<mergeVars, analysisVars, contextVars, heap, filterVars, delegationVars>>

\* The variables that Merge and deduplicate do not touch.
outsideMerge == <<analysisVars, contextVars, heap, filterVars, delegationVars>>

\* The variables that the concurrent analysis does not touch.
outsideAnalysis == <<mergeVars, contextVars, heap, filterVars, delegationVars>>

\* The variables that MergeWithContext does not touch.
outsideContext == <<i, j, base, members, clusters, run, first, analysisVars, heap, filterVars,
                    delegationVars>>

\* The variables that Merge on slices with backing arrays does not use.
outsideHeap == <<j, merged, base, members, clusters, run, first, analysisVars, contextVars,
                 filterVars, delegationVars>>

\* The variables that Filter does not use.
outsideFilter == <<findingArrays, j, merged, base, members, clusters, run, first,
                   analysisVars, contextVars, heap, delegationVars>>

\* The variables that delegateIssues does not use.
outsideDelegation == <<findingArrays, all, i, j, merged, base, result, members, clusters, first,
                       analysisVars, contextVars, heap, filterVars>>

\* The variables that calculateSimilarity does not use.
outsideScore == <<findingArrays, i, j, merged, base, members, clusters, run, first,
                  analysisVars, contextVars, heap, filterVars, delegationVars>>

\* Largest number of findings handed to one call of Merge.
MaxFindings == 3

----------------------------------------------------------------------------
(* Characters and strings *)

\* The characters used by the inputs, in increasing byte order.
Alphabet ==
    <<" ","(",")","*",",","-",".","/","0","1","2","3","4","5","6","7","8","9",":",";",
      "A","B","C","D","E","F","G","H","I","J","K","L","M","N","O","P","Q","R","S",
      "T","U","V","W","X","Y","Z","[","]",
      "a","b","c","d","e","f","g","h","i","j","k","l","m","n","o","p","q","r","s",
      "t","u","v","w","x","y","z","{","}">>

UpperCase ==
    <<"A","B","C","D","E","F","G","H","I","J","K","L","M","N","O","P","Q","R","S",
      "T","U","V","W","X","Y","Z">>

LowerCase ==
    <<"a","b","c","d","e","f","g","h","i","j","k","l","m","n","o","p","q","r","s",
      "t","u","v","w","x","y","z">>

\* Byte order of every character.
OrdTable == [c \in {Alphabet[k] : k \in DOMAIN Alphabet} |->
                CHOOSE k \in DOMAIN Alphabet : Alphabet[k] = c]

Ord(c) == OrdTable[c]

\* strings.ToLower on every character: only the upper-case letters change.
LowerTable == [c \in {Alphabet[k] : k \in DOMAIN Alphabet} |->
                  IF \E k \in DOMAIN UpperCase : UpperCase[k] = c
                  THEN LowerCase[CHOOSE k \in DOMAIN UpperCase : UpperCase[k] = c]
                  ELSE c]

LowerChar(c) == LowerTable[c]

\* strings.ToLower
ToLower(s) == [k \in DOMAIN s |-> LowerChar(s[k])]

\* Byte-wise s < t, the order of sort.Strings.
RECURSIVE StringLess(_, _)
StringLess(s, t) ==
    IF t = <<>> THEN FALSE
    ELSE IF s = <<>> THEN TRUE
    ELSE IF s[1] # t[1] THEN Ord(s[1]) < Ord(t[1])
    ELSE StringLess(Tail(s), Tail(t))

\* strings.HasSuffix
HasSuffix(s, suffix) ==
    /\ Len(s) >= Len(suffix)
    /\ SubSeq(s, Len(s) - Len(suffix) + 1, Len(s)) = suffix

\* strings.Contains
Contains(s, sub) ==
    \E k \in 1..(Len(s) + 1) :
        /\ k + Len(sub) - 1 <= Len(s)
        /\ SubSeq(s, k, k + Len(sub) - 1) = sub

\* The set of elements of a sequence.
Range(s) == {s[k] : k \in DOMAIN s}

----------------------------------------------------------------------------
(* Scores: float64 values as exact rationals *)

RECURSIVE GCD(_, _)
GCD(a, b) == IF b = 0 THEN a ELSE GCD(b, a % b)

\* The value n/d in lowest terms (d > 0).
Rat(n, d) == LET g == GCD(n, d) IN [num |-> n \div g, den |-> d \div g]

RatAdd(x, y) == Rat(x.num * y.den + y.num * x.den, x.den * y.den)

RatMul(x, y) == Rat(x.num * y.num, x.den * y.den)

RatDiv(x, y) == Rat(x.num * y.den, x.den * y.num)

RatGeq(x, y) == x.num * y.den >= y.num * x.den

RatEq(x, y) == x.num * y.den = y.num * x.den

----------------------------------------------------------------------------
(* Severity *)

SeverityHigh == "high"

SeverityMedium == "medium"

SeverityLow == "low"

CategorySecurity == "security"

CategoryPipeline == "pipeline"

CategoryInfra == "infra"

\* severityValue: lower is more severe, anything unknown is 3.
severityValue(severity) ==
    CASE severity = SeverityHigh -> 0
      [] severity = SeverityMedium -> 1
      [] severity = SeverityLow -> 2
      [] OTHER -> 3

----------------------------------------------------------------------------
(* Tokenizer / normalizer *)

\* The characters the strings.NewReplacer of tokenize turns into a space.
Punctuation == {",", ".", ":", ";", "(", ")", "[", "]", "{", "}", "/", "-"}

Replace(s) == [k \in DOMAIN s |-> IF s[k] \in Punctuation THEN " " ELSE s[k]]

\* strings.Fields: the maximal runs of non-space characters of s[k..], given the
\* run cur read so far.
RECURSIVE FieldsFrom(_, _, _)
FieldsFrom(s, k, cur) ==
    IF k > Len(s)
    THEN IF cur = <<>> THEN <<>> ELSE <<cur>>
    ELSE IF s[k] = " "
         THEN IF cur = <<>>
              THEN FieldsFrom(s, k + 1, <<>>)
              ELSE <<cur>> \o FieldsFrom(s, k + 1, <<>>)
         ELSE FieldsFrom(s, k + 1, Append(cur, s[k]))

Fields(s) == FieldsFrom(s, 1, <<>>)

\* tokenize: split on whitespace and punctuation, skip single-character tokens.
tokenize(s) == SelectSeq(Fields(Replace(s)), LAMBDA token : Len(token) > 1)

\* The suffixes of normalizeToken, in the order they are tried.
Suffixes == << <<"i","n","g">>, <<"e","d">>, <<"s">>, <<"e","s">> >>

\* normalizeToken: strip the first suffix that leaves more than two characters.
normalizeToken(token) ==
    LET fits(k) == Len(token) > Len(Suffixes[k]) + 2 /\ HasSuffix(token, Suffixes[k])
    IN  IF \E k \in DOMAIN Suffixes : fits(k)
        THEN LET k == CHOOSE k \in DOMAIN Suffixes :
                          fits(k) /\ \A h \in 1..(k - 1) : ~fits(h)
             IN  SubSeq(token, 1, Len(token) - Len(Suffixes[k]))
        ELSE token

normalizeTokens(tokens) == [k \in DOMAIN tokens |-> normalizeToken(tokens[k])]

----------------------------------------------------------------------------
(* Similarity scorer *)

\* tokenSimilarity: intersection counts every token of s2 found in the set of
\* the tokens of s1; union is len(tokens1) + len(tokens2) - intersection.
tokenSimilarity(s1, s2) ==
    IF s1 = <<>> /\ s2 = <<>> THEN Rat(1, 1)
    ELSE IF s1 = <<>> \/ s2 = <<>> THEN Rat(0, 1)
    ELSE LET raw1 == tokenize(ToLower(s1))
             raw2 == tokenize(ToLower(s2))
         IN  IF Len(raw1) = 0 /\ Len(raw2) = 0 THEN Rat(1, 1)
             ELSE IF Len(raw1) = 0 \/ Len(raw2) = 0 THEN Rat(0, 1)
             ELSE LET tokens1 == normalizeTokens(raw1)
                      tokens2 == normalizeTokens(raw2)
                      set1 == Range(tokens1)
                      intersection ==
                          Cardinality({k \in DOMAIN tokens2 : tokens2[k] \in set1})
                      union == Len(tokens1) + Len(tokens2) - intersection
                  IN  IF union = 0 THEN Rat(0, 1) ELSE Rat(intersection, union)

\* calculateFileOverlap: files of files2 found in files1, over the longer length.
calculateFileOverlap(files1, files2) ==
    IF Len(files1) = 0 /\ Len(files2) = 0 THEN Rat(1, 1)
    ELSE IF Len(files1) = 0 \/ Len(files2) = 0 THEN Rat(0, 1)
    ELSE LET set1 == Range(files1)
             overlap == Cardinality({k \in DOMAIN files2 : files2[k] \in set1})
             maxLen == IF Len(files2) > Len(files1) THEN Len(files2) ELSE Len(files1)
         IN  Rat(overlap, maxLen)

\* The weights of calculateSimilarity and the threshold of shouldMerge, in hundredths.
TitleWeight == 35

DescriptionWeight == 25

RecommendationWeight == 15

FileWeight == 25

MergeThreshold == 38

\* calculateSimilarity: the weighted sum of the included signals over the sum
\* of their weights.
calculateSimilarity(a, b) ==
    LET zero == Rat(0, 1)
        w(n) == Rat(n, 100)
        hasDesc == a.Description # <<>> /\ b.Description # <<>>
        hasRec == a.Recommendation # <<>> /\ b.Recommendation # <<>>
        hasFiles == Len(a.Files) > 0 /\ Len(b.Files) > 0
        score1 == RatMul(tokenSimilarity(a.Title, b.Title), w(TitleWeight))
        weights1 == w(TitleWeight)
        score2 == IF hasDesc
                  THEN RatAdd(score1, RatMul(tokenSimilarity(a.Description, b.Description),
                                             w(DescriptionWeight)))
                  ELSE score1
        weights2 == IF hasDesc THEN RatAdd(weights1, w(DescriptionWeight)) ELSE weights1
        score3 == IF hasRec
                  THEN RatAdd(score2, RatMul(tokenSimilarity(a.Recommendation, b.Recommendation),
                                             w(RecommendationWeight)))
                  ELSE score2
        weights3 == IF hasRec THEN RatAdd(weights2, w(RecommendationWeight)) ELSE weights2
        score4 == IF hasFiles
                  THEN RatAdd(score3, RatMul(calculateFileOverlap(a.Files, b.Files),
                                             w(FileWeight)))
                  ELSE score3
        weights4 == IF hasFiles THEN RatAdd(weights3, w(FileWeight)) ELSE weights3
    IN  IF weights4.num = 0 THEN zero ELSE RatDiv(score4, weights4)

\* shouldMerge without the category test.
shouldMerge_NoCategoryGate(a, b) ==
    RatGeq(calculateSimilarity(a, b), Rat(MergeThreshold, 100))

\* shouldMerge: same category and a score of at least 0.38.
shouldMerge(a, b) ==
    IF a.Category # b.Category
    THEN FALSE
    ELSE RatGeq(calculateSimilarity(a, b), Rat(MergeThreshold, 100))


----------------------------------------------------------------------------
(* Merge resolver *)

\* sort.Strings applied to the keys of a file set.
RECURSIVE SortStrings(_)
SortStrings(S) ==
    IF S = {} THEN <<>>
    ELSE LET least == CHOOSE x \in S : \A y \in S \ {x} : StringLess(x, y)
         IN  <<least>> \o SortStrings(S \ {least})

\* The text kept for a description or recommendation of a merge.
mergeText(baseText, otherText) ==
    IF otherText # <<>> /\ otherText # baseText /\ ~Contains(baseText, otherText)
    THEN baseText \o <<" ">> \o otherText
    ELSE baseText

\* mergeFindings that always keeps a as the base.
mergeFindings_KeepFirst(a, b) ==
    [ID |-> a.ID,
     Category |-> a.Category,
     Title |-> a.Title,
     Severity |-> a.Severity,
     Description |-> mergeText(a.Description, b.Description),
     Recommendation |-> mergeText(a.Recommendation, b.Recommendation),
     Files |-> SortStrings(Range(a.Files) \cup Range(b.Files)),
     CodeSnippets |-> <<>>]

\* mergeFindings that appends the unseen files of the other finding and does
\* not sort.
mergeFindings_AppendFiles(a, b) ==
    LET swap == severityValue(b.Severity) < severityValue(a.Severity)
        bs == IF swap THEN b ELSE a
        other == IF swap THEN a ELSE b
    IN  [ID |-> bs.ID,
         Category |-> bs.Category,
         Title |-> bs.Title,
         Severity |-> bs.Severity,
         Description |-> mergeText(bs.Description, other.Description),
         Recommendation |-> mergeText(bs.Recommendation, other.Recommendation),
         Files |-> bs.Files \o SelectSeq(other.Files, LAMBDA f : f \notin Range(bs.Files)),
         CodeSnippets |-> <<>>]

\* mergeFindings that keeps only the files of the base.
mergeFindings_BaseFilesOnly(a, b) ==
    LET swap == severityValue(b.Severity) < severityValue(a.Severity)
        bs == IF swap THEN b ELSE a
        other == IF swap THEN a ELSE b
    IN  [ID |-> bs.ID,
         Category |-> bs.Category,
         Title |-> bs.Title,
         Severity |-> bs.Severity,
         Description |-> mergeText(bs.Description, other.Description),
         Recommendation |-> mergeText(bs.Recommendation, other.Recommendation),
         Files |-> SortStrings(Range(bs.Files)),
         CodeSnippets |-> <<>>]

\* mergeFindings that also takes b as the base when the severities tie.
mergeFindings_TieToOther(a, b) ==
    LET swap == severityValue(b.Severity) <= severityValue(a.Severity)
        bs == IF swap THEN b ELSE a
        other == IF swap THEN a ELSE b
    IN  [ID |-> bs.ID,
         Category |-> bs.Category,
         Title |-> bs.Title,
         Severity |-> bs.Severity,
         Description |-> mergeText(bs.Description, other.Description),
         Recommendation |-> mergeText(bs.Recommendation, other.Recommendation),
         Files |-> SortStrings(Range(bs.Files) \cup Range(other.Files)),
         CodeSnippets |-> <<>>]

\* mergeFindings: the more severe finding is the base (a on a tie); the files
\* are the sorted union; differing texts of the other finding are appended.
\* The struct literal it returns names no CodeSnippets, which is left nil.
mergeFindings(a, b) ==
    LET swap == severityValue(b.Severity) < severityValue(a.Severity)
        bs == IF swap THEN b ELSE a
        other == IF swap THEN a ELSE b
    IN  [ID |-> bs.ID,
         Category |-> bs.Category,
         Title |-> bs.Title,
         Severity |-> bs.Severity,
         Description |-> mergeText(bs.Description, other.Description),
         Recommendation |-> mergeText(bs.Recommendation, other.Recommendation),
         Files |-> SortStrings(Range(bs.Files) \cup Range(other.Files)),
         CodeSnippets |-> <<>>]

----------------------------------------------------------------------------
(* Ranker *)

\* The severityOrder map of BySeverity.Less; a missing key reads as 0.
severityOrder(severity) ==
    CASE severity = SeverityHigh -> 0
      [] severity = SeverityMedium -> 1
      [] severity = SeverityLow -> 2
      [] OTHER -> 0

\* BySeverity.Less on two findings.
Less(x, y) == severityOrder(x.Severity) < severityOrder(y.Severity)

\* sort.Sort on a short slice is an insertion sort: the element at position k
\* moves left while it is Less than its left neighbour.  p is the order of the
\* indices of data so far.
RECURSIVE MoveLeft(_, _, _)
MoveLeft(data, p, k) ==
    IF k > 1 /\ Less(data[p[k]], data[p[k - 1]])
    THEN MoveLeft(data, [p EXCEPT ![k] = p[k - 1], ![k - 1] = p[k]], k - 1)
    ELSE p

RECURSIVE InsertionSort(_, _, _)
InsertionSort(data, p, k) ==
    IF k > Len(p) THEN p ELSE InsertionSort(data, MoveLeft(data, p, k), k + 1)

\* A slice longer than maxInsertion is not insertion-sorted as a whole:
\* sort.Sort picks a pivot, partitions around it and sorts the two sides.
maxInsertion == 12

\* insertionSort(data, a, b) on the positions lo..hi of the order p.
RECURSIVE MoveLeftTo(_, _, _, _)
MoveLeftTo(data, p, k, lo) ==
    IF k > lo /\ Less(data[p[k]], data[p[k - 1]])
    THEN MoveLeftTo(data, [p EXCEPT ![k] = p[k - 1], ![k - 1] = p[k]], k - 1, lo)
    ELSE p

RECURSIVE insertionSort(_, _, _, _, _)
insertionSort(data, p, lo, hi, k) ==
    IF k > hi THEN p ELSE insertionSort(data, MoveLeftTo(data, p, k, lo), lo, hi, k + 1)

\* order2: the positions a, b in non-decreasing order, and whether they were swapped.
order2(data, p, a, b) ==
    IF Less(data[p[b]], data[p[a]]) THEN [x |-> b, y |-> a, swaps |-> 1]
    ELSE [x |-> a, y |-> b, swaps |-> 0]

\* median of the elements at positions a, b, c, with the number of swaps made.
median(data, p, a, b, c) ==
    LET o1 == order2(data, p, a, b)
        o2 == order2(data, p, o1.y, c)
        o3 == order2(data, p, o1.x, o2.x)
    IN  [pivot |-> o3.y, swaps |-> o1.swaps + o2.swaps + o3.swaps]

\* choosePivot on a whole slice of 8 to 49 elements: the median of the elements
\* at the quarter positions; no swap means the slice is likely sorted.
choosePivot(data, p) ==
    LET l == Len(p)
        q == l \div 4
    IN  median(data, p, 1 + q, 1 + q * 2, 1 + q * 3)

\* partialInsertionSort on a slice of fewer than 50 elements only reports
\* whether the slice is sorted.
partialInsertionSort(data, p) ==
    \A k \in 2..Len(p) : ~Less(data[p[k]], data[p[k - 1]])

SwapAt(p, a, b) == [p EXCEPT ![a] = p[b], ![b] = p[a]]

\* partition: the pivot is at position 1; i moves up over the elements Less than
\* the pivot, j moves down over the others, and crossed pairs are swapped.
RECURSIVE ScanUp(_, _, _, _)
ScanUp(data, p, k, l) ==
    IF k <= l /\ Less(data[p[k]], data[p[1]]) THEN ScanUp(data, p, k + 1, l) ELSE k

RECURSIVE ScanDown(_, _, _, _)
ScanDown(data, p, k, l) ==
    IF k <= l /\ ~Less(data[p[l]], data[p[1]]) THEN ScanDown(data, p, k, l - 1) ELSE l

RECURSIVE PartitionLoop(_, _, _, _)
PartitionLoop(data, p, k, l) ==
    LET k2 == ScanUp(data, p, k, l)
        l2 == ScanDown(data, p, k2, l)
    IN  IF k2 > l2 THEN [order |-> SwapAt(p, l2, 1), mid |-> l2]
        ELSE PartitionLoop(data, SwapAt(p, k2, l2), k2 + 1, l2 - 1)

partition(data, p, pivot) == PartitionLoop(data, SwapAt(p, 1, pivot), 2, Len(p))

\* pdqsort on a slice of maxInsertion + 1 elements, the longest the model
\* sorts: after one partition both sides are at most maxInsertion long and
\* are insertion-sorted.
pdqsort(data, p) ==
    LET c == choosePivot(data, p)
    IN  IF c.swaps = 0 /\ partialInsertionSort(data, p) THEN p
        ELSE LET r == partition(data, p, c.pivot)
                 left == insertionSort(data, r.order, 1, r.mid - 1, 2)
             IN  insertionSort(data, left, r.mid + 1, Len(p), r.mid + 2)

\* The order in which sort.Sort(BySeverity(data)) leaves the elements of data.
SortOrder(data) ==
    IF Len(data) <= maxInsertion
    THEN InsertionSort(data, [k \in DOMAIN data |-> k], 2)
    ELSE pdqsort(data, [k \in DOMAIN data |-> k])

----------------------------------------------------------------------------
(* Inputs *)

T_S3Lacks ==
    <<"S","3"," ","b","u","c","k","e","t"," ","l","a","c","k","s"," ",
      "e","n","c","r","y","p","t","i","o","n">>

T_S3Missing ==
    <<"S","3"," ","b","u","c","k","e","t"," ","m","i","s","s","i","n","g"," ",
      "e","n","c","r","y","p","t","i","o","n">>

T_SecA ==
    <<"S","e","c","u","r","i","t","y"," ","i","s","s","u","e"," ","A">>

T_SecB ==
    <<"S","e","c","u","r","i","t","y"," ","i","s","s","u","e"," ","B">>

T_Cache ==
    <<"P","i","p","e","l","i","n","e"," ","c","a","c","h","e">>

T_CacheRep ==
    <<"C","a","c","h","e",":"," ","p","i","p","e","l","i","n","e"," ","c","a","c","h","e">>

D_Rest ==
    <<"D","a","t","a"," ","a","t"," ","r","e","s","t"," ","i","s"," ",
      "u","n","p","r","o","t","e","c","t","e","d">>

D_Policy ==
    <<"P","o","l","i","c","y"," ","a","l","l","o","w","s"," ",
      "p","l","a","i","n","t","e","x","t"," ","u","p","l","o","a","d","s">>

R_Kms ==
    <<"E","n","a","b","l","e"," ","K","M","S">>

R_Deny ==
    <<"D","e","n","y"," ","i","n","s","e","c","u","r","e"," ",
      "t","r","a","n","s","p","o","r","t">>

F_storage ==
    <<"s","t","o","r","a","g","e",".","t","f">>

F_backup ==
    <<"b","a","c","k","u","p",".","t","f">>

F_main ==
    <<"m","a","i","n",".","t","f">>

Finding(id, category, title, severity, description, recommendation, files) ==
    [ID |-> id, Category |-> category, Title |-> title, Severity |-> severity,
     Description |-> description, Recommendation |-> recommendation, Files |-> files,
     CodeSnippets |-> <<>>]

CodeSnippet(file, startLine, endLine, code) ==
    [File |-> file, StartLine |-> startLine, EndLine |-> endLine, Code |-> code]

\* The finding f reported with the given code snippets.
WithSnippets(f, snippets) == [f EXCEPT !.CodeSnippets = snippets]

\* The zero value of Finding.
NoFinding == Finding("", "", <<>>, "", <<>>, <<>>, <<>>)

S3a ==
    WithSnippets(
        Finding("SEC-001", CategorySecurity, T_S3Lacks, SeverityHigh, <<>>, <<>>, <<F_storage>>),
        <<CodeSnippet(F_storage, 10, 20, "resource aws_s3_bucket data")>>)

S3b == Finding("SEC-002", CategorySecurity, T_S3Missing, SeverityHigh, <<>>, <<>>, <<F_backup>>)

S3c ==
    WithSnippets(
        Finding("SEC-003", CategorySecurity, T_S3Lacks, SeverityLow, D_Rest, R_Kms, <<F_backup>>),
        <<CodeSnippet(F_backup, 5, 8, "resource aws_s3_bucket backup")>>)

S3d ==
    WithSnippets(
        Finding("SEC-004", CategorySecurity, T_S3Lacks, SeverityMedium, D_Policy, R_Deny,
                <<F_storage, F_main>>),
        <<CodeSnippet(F_storage, 10, 20, "resource aws_s3_bucket data")>>)

SecA == Finding("SEC-005", CategorySecurity, T_SecA, SeverityLow, <<>>, <<>>, <<>>)

SecB == Finding("SEC-006", CategorySecurity, T_SecB, SeverityMedium, <<>>, <<>>, <<>>)

Inf1 == Finding("INFRA-001", CategoryInfra, T_S3Lacks, SeverityMedium, <<>>, <<>>, <<F_storage>>)

Pipe1 == Finding("PIPE-001", CategoryPipeline, T_Cache, SeverityLow, <<>>, <<>>, <<>>)

Pipe2 == Finding("PIPE-002", CategoryPipeline, T_CacheRep, "critical", <<>>, <<>>, <<>>)

\* The findings the collectors may report.
Pool == {S3a, S3b, S3c, S3d, SecA, SecB, Inf1, Pipe1, Pipe2}

\* All lists of at most n findings of the pool.
ListsUpTo(n) == UNION {[1..m -> Pool] : m \in 0..n}

----------------------------------------------------------------------------
(* Merge and deduplicate, step by step *)

\* The scopes of runAnalysis and the default scanners of NewManager, in order.
scopes == <<"security", "pipeline", "infra">>

defaultScanners == <<"checkov", "trivy">>

Goroutines == {"main", "copilot", "scanners"} \cup Range(scopes) \cup Range(defaultScanners)

\* No filter and no delegation is involved.
NoFilter ==
    /\ cfg = [Accepted |-> <<>>, IgnorePaths |-> <<>>, IgnorePatterns |-> <<>>]
    /\ ignoredCount = 0
    /\ issueNums = <<>>
    /\ labeled = {}
    /\ assigned = <<>>

\* No command has run.
NoOutput == [ran |-> FALSE, lines |-> <<>>]

\* No deduplicator is involved, and slices are taken by value.
NoContext ==
    /\ deduplicator = "nil"
    /\ err = FALSE
    /\ stdout = NoOutput
    /\ heap = <<>>

\* No analysis is running: Merge is called on its own.
NoAnalysis ==
    /\ enabledScopes = <<>>
    /\ analyzerRun = <<>>
    /\ skipScanners = TRUE
    /\ enabledScanners = <<>>
    /\ scannerRun = <<>>
    /\ apc = [g \in Goroutines |-> "idle"]
    /\ resultCh = <<>>
    /\ allResults = <<>>
    /\ results = <<>>
    /\ scanFindings = <<>>
    /\ copilotCh = <<>>
    /\ scannerCh = <<>>
    /\ ret = <<>>

Init ==
    /\ \E list \in ListsUpTo(MaxFindings) : \E k \in 0..Len(list) :
           findingArrays = <<SubSeq(list, 1, k), SubSeq(list, k + 1, Len(list))>>
    /\ all = <<>>
    /\ pc = "start"
    /\ i = 0
    /\ j = 0
    /\ merged = {}
    /\ base = NoFinding
    /\ result = <<>>
    /\ members = {}
    /\ clusters = <<>>
    /\ run = 1
    /\ first = <<>>
    /\ NoAnalysis
    /\ NoContext
    /\ NoFilter

\* append(all, findings...) over the arrays, in order.
RECURSIVE Concat(_)
Concat(arrays) == IF arrays = <<>> THEN <<>> ELSE Head(arrays) \o Concat(Tail(arrays))

\* Merge combines its arguments and enters deduplicate, which returns an empty
\* list at once.
MergeStart ==
    /\ pc = "start"
    /\ all' = Concat(findingArrays)
    /\ pc' = IF Len(all') = 0 THEN "sort" ELSE "outer"
    /\ i' = 1
    /\ j' = 0
    /\ merged' = {}
    /\ base' = NoFinding
    /\ result' = <<>>
    /\ members' = {}
    /\ clusters' = <<>>
    /\ UNCHANGED <<findingArrays, run, first>>
    /\ UNCHANGED outsideMerge

\* for i: the loop is over, deduplicate returns result.
OuterDone ==
    /\ pc = "outer"
    /\ i > Len(all)
    /\ pc' = "sort"
    /\ UNCHANGED <<findingArrays, all, i, j, merged, base, result, members, clusters, run, first>>
    /\ UNCHANGED outsideMerge

\* for i: findings[i] was merged into an earlier base.
OuterSkip ==
    /\ pc = "outer"
    /\ i <= Len(all)
    /\ i \in merged
    /\ i' = i + 1
    /\ UNCHANGED <<findingArrays, all, pc, j, merged, base, result, members, clusters, run, first>>
    /\ UNCHANGED outsideMerge

\* OuterPick that passes the new base through mergeFindings with itself.
OuterPick_Normalises ==
    /\ pc = "outer"
    /\ i <= Len(all)
    /\ i \notin merged
    /\ base' = mergeFindings(all[i], all[i])
    /\ members' = {i}
    /\ j' = i + 1
    /\ pc' = "inner"
    /\ UNCHANGED <<findingArrays, all, i, merged, result, clusters, run, first>>
    /\ UNCHANGED outsideMerge

\* for i: findings[i] starts a new base.
OuterPick ==
    /\ pc = "outer"
    /\ i <= Len(all)
    /\ i \notin merged
    /\ base' = all[i]
    /\ members' = {i}
    /\ j' = i + 1
    /\ pc' = "inner"
    /\ UNCHANGED <<findingArrays, all, i, merged, result, clusters, run, first>>
    /\ UNCHANGED outsideMerge

\* for j: the scan is over, base is appended to result.
InnerDone ==
    /\ pc = "inner"
    /\ j > Len(all)
    /\ result' = Append(result, base)
    /\ clusters' = Append(clusters, members)
    /\ base' = NoFinding
    /\ members' = {}
    /\ i' = i + 1
    /\ j' = 0
    /\ pc' = "outer"
    /\ UNCHANGED <<findingArrays, all, merged, run, first>>
    /\ UNCHANGED outsideMerge

\* for j: findings[j] was merged before.
InnerSkip ==
    /\ pc = "inner"
    /\ j <= Len(all)
    /\ j \in merged
    /\ j' = j + 1
    /\ UNCHANGED <<findingArrays, all, pc, i, merged, base, result, members, clusters, run, first>>
    /\ UNCHANGED outsideMerge

\* for j: findings[j] is merged into base.
InnerMerge ==
    /\ pc = "inner"
    /\ j <= Len(all)
    /\ j \notin merged
    /\ shouldMerge(base, all[j])
    /\ base' = mergeFindings(base, all[j])
    /\ merged' = merged \cup {j}
    /\ members' = members \cup {j}
    /\ j' = j + 1
    /\ UNCHANGED <<findingArrays, all, pc, i, result, clusters, run, first>>
    /\ UNCHANGED outsideMerge

\* for j: findings[j] is left for a later base.
InnerKeep ==
    /\ pc = "inner"
    /\ j <= Len(all)
    /\ j \notin merged
    /\ ~shouldMerge(base, all[j])
    /\ j' = j + 1
    /\ UNCHANGED <<findingArrays, all, pc, i, merged, base, result, members, clusters, run, first>>
    /\ UNCHANGED outsideMerge

\* sort.Sort(BySeverity(deduplicated)); Merge returns.
SortResult ==
    /\ pc = "sort"
    /\ LET p == SortOrder(result)
       IN  /\ result' = [k \in DOMAIN result |-> result[p[k]]]
           /\ clusters' = [k \in DOMAIN clusters |-> clusters[p[k]]]
    /\ pc' = "done"
    /\ UNCHANGED <<findingArrays, all, i, j, merged, base, members, run, first>>
    /\ UNCHANGED outsideMerge

\* The engine is run on its own output.
MergeAgain ==
    /\ pc = "done"
    /\ run = 1
    /\ first' = result
    /\ findingArrays' = <<result>>
    /\ run' = 2
    /\ pc' = "start"
    /\ UNCHANGED <<all, i, j, merged, base, result, members, clusters>>
    /\ UNCHANGED outsideMerge

Next ==
    \/ MergeStart
    \/ OuterDone
    \/ OuterSkip
    \/ OuterPick
    \/ InnerDone
    \/ InnerSkip
    \/ InnerMerge
    \/ InnerKeep
    \/ SortResult
    \/ MergeAgain

Spec == Init /\ [][Next]_vars

----------------------------------------------------------------------------
(* Merge of a list one longer than the longest that sort.Sort insertion-sorts *)

\* The most findings of low severity in that list; the others are high.
MaxLow == 2

\* Titles with no token in common: no two of the findings merge.  The list may
\* be followed by a second report of its first finding, which merges into it.
SortTitles ==
    <<<<"q","a">>,
      <<"q","b">>,
      <<"q","c">>,
      <<"q","e">>,
      <<"q","f">>,
      <<"q","h">>,
      <<"q","i">>,
      <<"q","j">>,
      <<"q","k">>,
      <<"q","l">>,
      <<"q","m">>,
      <<"q","n">>,
      <<"q","o">>>>

SortIDs ==
    <<"SORT-01", "SORT-02", "SORT-03", "SORT-04", "SORT-05", "SORT-06",
      "SORT-07", "SORT-08", "SORT-09", "SORT-10", "SORT-11", "SORT-12", "SORT-13">>

SortFinding(k, severity) ==
    Finding(SortIDs[k], CategorySecurity, SortTitles[k], severity, <<>>, <<>>, <<>>)

InitSort ==
    /\ \E lows \in SUBSET (1..(maxInsertion + 1)) :
           /\ Cardinality(lows) <= MaxLow
           /\ \E again \in {<<>>, <<SortFinding(1, SeverityHigh)>>} :
                  findingArrays =
                      << [k \in 1..(maxInsertion + 1) |->
                             SortFinding(k, IF k \in lows THEN SeverityLow ELSE SeverityHigh)],
                         again >>
    /\ all = <<>>
    /\ pc = "start"
    /\ i = 0
    /\ j = 0
    /\ merged = {}
    /\ base = NoFinding
    /\ result = <<>>
    /\ members = {}
    /\ clusters = <<>>
    /\ run = 1
    /\ first = <<>>
    /\ NoAnalysis
    /\ NoContext
    /\ NoFilter

SpecSort == InitSort /\ [][Next]_vars

----------------------------------------------------------------------------
(* Merge as a function of its arguments *)

\* deduplicate, one step of the inner loop at index k: findings[k] is merged
\* into the base unless it was merged before or does not match.
innerStep(findings, st, k) ==
    IF k \notin st.merged /\ shouldMerge(st.base, findings[k])
    THEN [base |-> mergeFindings(st.base, findings[k]), merged |-> st.merged \cup {k}]
    ELSE st

\* deduplicate, inner loop: the base and the merged indices after the
\* candidates from..Len(findings).
dedupInner(findings, st, from) ==
    LET after[k \in (from - 1)..Len(findings)] ==
            IF k = from - 1 THEN st ELSE innerStep(findings, after[k - 1], k)
    IN  after[Len(findings)]

\* deduplicate: the base of an inner loop is appended to result.
appendBase(st, r) == [result |-> Append(st.result, r.base), merged |-> r.merged]

\* deduplicate, one step of the outer loop at index k: findings[k] starts a new
\* base unless it was merged before.
outerStep(findings, st, k) ==
    IF k \in st.merged THEN st
    ELSE appendBase(st,
                    dedupInner(findings, [base |-> findings[k], merged |-> st.merged], k + 1))

deduplicate(findings) ==
    LET after[k \in 0..Len(findings)] ==
            IF k = 0 THEN [result |-> <<>>, merged |-> {}]
            ELSE outerStep(findings, after[k - 1], k)
    IN  IF Len(findings) = 0 THEN findings ELSE after[Len(findings)].result

\* sort.Sort(BySeverity(data)).
SortBySeverity(data) == [k \in DOMAIN data |-> data[SortOrder(data)[k]]]

Merge(arrays) == SortBySeverity(deduplicate(Concat(arrays)))

----------------------------------------------------------------------------
(* The grouping engine behind MergeWithContext: groupAndMerge and its rule *)

MinSignificantWords == 3

\* The similarity thresholds of the grouping rule, in hundredths.
TitleSimilarityThreshold == 75

DescriptionSimilarityThreshold == 60

RecommendationSimilarityThreshold == 60

stopWords ==
    {<<"a">>, <<"a","n">>, <<"a","n","d">>, <<"a","r","e">>, <<"a","s">>, <<"a","t">>,
     <<"b","e">>, <<"b","y">>, <<"f","o","r">>, <<"f","r","o","m">>, <<"h","a","s">>,
     <<"h","e">>, <<"i","n">>, <<"i","s">>, <<"i","t">>, <<"i","t","s">>, <<"o","f">>,
     <<"o","n">>, <<"t","h","a","t">>, <<"t","h","e">>, <<"t","o">>, <<"w","a","s">>,
     <<"w","i","l","l">>, <<"w","i","t","h">>}

\* strings.Trim(s, cutset): the characters of cut are removed from both ends.
RECURSIVE TrimLeft(_, _)
TrimLeft(s, cut) == IF s # <<>> /\ Head(s) \in cut THEN TrimLeft(Tail(s), cut) ELSE s

RECURSIVE TrimRight(_, _)
TrimRight(s, cut) ==
    IF s # <<>> /\ s[Len(s)] \in cut THEN TrimRight(SubSeq(s, 1, Len(s) - 1), cut) ELSE s

Trim(s, cut) == TrimRight(TrimLeft(s, cut), cut)

TrimSpace(s) == Trim(s, {" "})

\* The cutset of extractWords.
WordCutset == {".", ",", ";", ":", "!", "?", "(", ")", "[", "]", "{", "}", "\"", "'"}

\* extractWords: the set of cleaned words longer than two characters that are
\* no stop words.
extractWords(text) ==
    {w \in {ToLower(Trim(f, WordCutset)) : f \in Range(Fields(text))} :
        Len(w) > 2 /\ w \notin stopWords}

\* calculateOverlapScore: the common words over the smaller number of words.
calculateOverlapScore(a, b) ==
    IF a = b THEN Rat(1, 1)
    ELSE LET wordsA == extractWords(a)
             wordsB == extractWords(b)
             lenA == Cardinality(wordsA)
             lenB == Cardinality(wordsB)
         IN  IF lenA = 0 \/ lenB = 0 THEN Rat(0, 1)
             ELSE Rat(Cardinality(wordsA \cap wordsB), IF lenB < lenA THEN lenB ELSE lenA)

\* The first 50 characters of a title.
TitlePrefix(s) == IF Len(s) > 50 THEN SubSeq(s, 1, 50) ELSE s

areTitlesSimilarLower(a, b) ==
    \/ a = b
    \/ TitlePrefix(a) = TitlePrefix(b)
    \/ /\ Cardinality(extractWords(a)) >= MinSignificantWords
       /\ Cardinality(extractWords(b)) >= MinSignificantWords
       /\ RatGeq(calculateOverlapScore(a, b), Rat(TitleSimilarityThreshold, 100))

areTitlesSimilar(a, b) == areTitlesSimilarLower(ToLower(TrimSpace(a)), ToLower(TrimSpace(b)))

textsSimilarLower(a, b, threshold) ==
    /\ a # <<>>
    /\ b # <<>>
    /\ RatGeq(calculateOverlapScore(a, b), Rat(threshold, 100))

areDescriptionsSimilar(a, b) ==
    textsSimilarLower(ToLower(TrimSpace(a)), ToLower(TrimSpace(b)),
                      DescriptionSimilarityThreshold)

areRecommendationsSimilar(a, b) ==
    textsSimilarLower(ToLower(TrimSpace(a)), ToLower(TrimSpace(b)),
                      RecommendationSimilarityThreshold)

haveCommonFiles(filesA, filesB) == Range(filesA) \cap Range(filesB) # {}

\* mergeFiles: the files of both lists in order of first appearance.
RECURSIVE Distinct(_, _)
Distinct(files, seen) ==
    IF files = <<>> THEN <<>>
    ELSE IF Head(files) \in seen THEN Distinct(Tail(files), seen)
    ELSE <<Head(files)>> \o Distinct(Tail(files), seen \cup {Head(files)})

mergeFiles(filesA, filesB) == Distinct(filesA \o filesB, {})

\* shouldMerge of the grouping engine: same category, and similar titles or a
\* common file with similar descriptions or recommendations.
shouldMergeGroup(a, b) ==
    /\ a.Category = b.Category
    /\ \/ areTitlesSimilar(a.Title, b.Title)
       \/ /\ haveCommonFiles(a.Files, b.Files)
          /\ \/ areDescriptionsSimilar(a.Description, b.Description)
             \/ areRecommendationsSimilar(a.Recommendation, b.Recommendation)

\* groupAndMerge, one step of the inner loop at index k: the files of
\* findings[k] are merged into the group if it is unused and matches.
groupStep(findings, st, k) ==
    IF k \notin st.used /\ shouldMergeGroup(st.group, findings[k])
    THEN [group |-> [st.group EXCEPT !.Files = mergeFiles(st.group.Files, findings[k].Files)],
          used |-> st.used \cup {k}]
    ELSE st

groupInner(findings, st, from) ==
    LET after[k \in (from - 1)..Len(findings)] ==
            IF k = from - 1 THEN st ELSE groupStep(findings, after[k - 1], k)
    IN  after[Len(findings)]

appendGroup(st, r) == [result |-> Append(st.result, r.group), used |-> r.used]

\* groupAndMerge, one step of the outer loop at index k.
groupOuterStep(findings, st, k) ==
    IF k \in st.used THEN st
    ELSE appendGroup(st,
                     groupInner(findings,
                                [group |-> findings[k], used |-> st.used \cup {k}], k + 1))

groupAndMerge(findings) ==
    LET after[k \in 0..Len(findings)] ==
            IF k = 0 THEN [result |-> <<>>, used |-> {}]
            ELSE groupOuterStep(findings, after[k - 1], k)
    IN  IF Len(findings) = 0 THEN findings ELSE after[Len(findings)].result

----------------------------------------------------------------------------
(* runAnalysisWithScanners with scope "all": the Copilot analysis of the *)
(* enabled scopes and the external scanners run concurrently             *)

\* Merge is not running on its own.
NoMerge ==
    /\ findingArrays = <<>>
    /\ all = <<>>
    /\ pc = "idle"
    /\ i = 0
    /\ j = 0
    /\ merged = {}
    /\ base = NoFinding
    /\ result = <<>>
    /\ members = {}
    /\ clusters = <<>>
    /\ run = 1
    /\ first = <<>>

\* The subsequences of a list: the entries that a configuration leaves enabled.
SubSeqs(list) ==
    {SelectSeq(list, LAMBDA x : x \in S) : S \in SUBSET Range(list)}

\* What a collector returns: findings, or an error.
Failed == [findings |-> <<>>, err |-> TRUE]

Found(fs) == [findings |-> fs, err |-> FALSE]

AnalyzerOutcomes ==
    [security : {Failed, Found(<<SecA>>)},
     pipeline : {Failed, Found(<<Pipe1>>)},
     infra : {Failed, Found(<<Inf1>>)}]

ScannerOutcomes ==
    [checkov : {Failed, Found(<<S3a>>)},
     trivy : {Failed, Found(<<S3b>>)}]

\* The capacities of the channels: resultCh has room for one result of every
\* enabled scope, results for one of every enabled scanner, and copilotCh and
\* scannerCh for one result each.
resultChCap == Len(enabledScopes)

resultsCap_OneShort == Len(enabledScanners) - 1

resultsCap == Len(enabledScanners)

copilotChCap == 1

scannerChCap == 1

InitAnalysis ==
    /\ enabledScopes \in SubSeqs(scopes)
    /\ analyzerRun \in AnalyzerOutcomes
    /\ skipScanners \in BOOLEAN
    /\ enabledScanners \in SubSeqs(defaultScanners)
    /\ scannerRun \in ScannerOutcomes
    /\ apc = [g \in Goroutines |->
                 IF g \in {"copilot", "scanners"} THEN "start"
                 ELSE IF g = "main" THEN "collect" ELSE "idle"]
    /\ resultCh = <<>>
    /\ allResults = <<>>
    /\ results = <<>>
    /\ scanFindings = <<>>
    /\ copilotCh = <<>>
    /\ scannerCh = <<>>
    /\ ret = <<>>
    /\ NoMerge
    /\ NoContext
    /\ NoFilter

\* runAnalysis: no scope is enabled.
NoScopes ==
    /\ apc["copilot"] = "start"
    /\ Len(enabledScopes) = 0
    /\ Len(copilotCh) < copilotChCap
    /\ copilotCh' = Append(copilotCh, Found(<<>>))
    /\ apc' = [apc EXCEPT !["copilot"] = "done"]
    /\ UNCHANGED <<enabledScopes, analyzerRun, skipScanners, enabledScanners, scannerRun,
                   resultCh, allResults, results, scanFindings, scannerCh, ret>>
    /\ UNCHANGED outsideAnalysis

\* runAnalysis: one goroutine is started for each enabled scope.
StartScopes ==
    /\ apc["copilot"] = "start"
    /\ Len(enabledScopes) > 0
    /\ apc' = [g \in Goroutines |->
                  IF g = "copilot" THEN "collect"
                  ELSE IF g \in Range(enabledScopes) THEN "run" ELSE apc[g]]
    /\ UNCHANGED <<enabledScopes, analyzerRun, skipScanners, enabledScanners, scannerRun,
                   resultCh, allResults, results, scanFindings, copilotCh, scannerCh, ret>>
    /\ UNCHANGED outsideAnalysis

\* The goroutine of scope s: analyzer.Run returns and the result is sent, which
\* waits while the channel is full.
ScopeRun(s) ==
    /\ apc[s] = "run"
    /\ Len(resultCh) < resultChCap
    /\ resultCh' = Append(resultCh,
                          [scope |-> s, findings |-> analyzerRun[s].findings,
                           err |-> analyzerRun[s].err])
    /\ apc' = [apc EXCEPT ![s] = "done"]
    /\ UNCHANGED <<enabledScopes, analyzerRun, skipScanners, enabledScanners, scannerRun,
                   allResults, results, scanFindings, copilotCh, scannerCh, ret>>
    /\ UNCHANGED outsideAnalysis

\* runAnalysis: the next result is received and appended to allResults.
Collect ==
    /\ apc["copilot"] = "collect"
    /\ Len(allResults) < Len(enabledScopes)
    /\ Len(resultCh) > 0
    /\ allResults' = Append(allResults, Head(resultCh))
    /\ resultCh' = Tail(resultCh)
    /\ UNCHANGED <<enabledScopes, analyzerRun, skipScanners, enabledScanners, scannerRun,
                   apc, results, scanFindings, copilotCh, scannerCh, ret>>
    /\ UNCHANGED outsideAnalysis

\* runAnalysis: the findingSlices handed to Merge, in the order of allResults.
findingSlices == [k \in DOMAIN allResults |-> allResults[k].findings]

\* runAnalysis: the receive loop has taken one result for every enabled scope.
AllCollected ==
    /\ apc["copilot"] = "collect"
    /\ Len(allResults) = Len(enabledScopes)

\* runAnalysis: some result carries an error, and the error is returned.
AnalysisFails ==
    /\ AllCollected
    /\ \E k \in DOMAIN allResults : allResults[k].err
    /\ Len(copilotCh) < copilotChCap
    /\ copilotCh' = Append(copilotCh, Failed)
    /\ apc' = [apc EXCEPT !["copilot"] = "done"]
    /\ UNCHANGED <<enabledScopes, analyzerRun, skipScanners, enabledScanners, scannerRun,
                   resultCh, allResults, results, scanFindings, scannerCh, ret>>
    /\ UNCHANGED outsideAnalysis

\* runAnalysis: no result carries an error, and the merged findings are returned.
AnalysisMerges ==
    /\ AllCollected
    /\ \A k \in DOMAIN allResults : ~allResults[k].err
    /\ Len(copilotCh) < copilotChCap
    /\ copilotCh' = Append(copilotCh, Found(Merge(findingSlices)))
    /\ apc' = [apc EXCEPT !["copilot"] = "done"]
    /\ UNCHANGED <<enabledScopes, analyzerRun, skipScanners, enabledScanners, scannerRun,
                   resultCh, allResults, results, scanFindings, scannerCh, ret>>
    /\ UNCHANGED outsideAnalysis

\* The scanner goroutine: scanners are skipped.
SkipScanners ==
    /\ apc["scanners"] = "start"
    /\ skipScanners
    /\ Len(scannerCh) < scannerChCap
    /\ scannerCh' = Append(scannerCh, Found(<<>>))
    /\ apc' = [apc EXCEPT !["scanners"] = "done"]
    /\ UNCHANGED <<enabledScopes, analyzerRun, skipScanners, enabledScanners, scannerRun,
                   resultCh, allResults, results, scanFindings, copilotCh, ret>>
    /\ UNCHANGED outsideAnalysis

\* RunAll: no scanner is enabled.
NoScanners ==
    /\ apc["scanners"] = "start"
    /\ ~skipScanners
    /\ Len(enabledScanners) = 0
    /\ Len(scannerCh) < scannerChCap
    /\ scannerCh' = Append(scannerCh, Found(<<>>))
    /\ apc' = [apc EXCEPT !["scanners"] = "done"]
    /\ UNCHANGED <<enabledScopes, analyzerRun, skipScanners, enabledScanners, scannerRun,
                   resultCh, allResults, results, scanFindings, copilotCh, ret>>
    /\ UNCHANGED outsideAnalysis

\* RunAll: one goroutine is started for each enabled scanner.
StartScanners ==
    /\ apc["scanners"] = "start"
    /\ ~skipScanners
    /\ Len(enabledScanners) > 0
    /\ apc' = [g \in Goroutines |->
                  IF g = "scanners" THEN "wait"
                  ELSE IF g \in Range(enabledScanners) THEN "run" ELSE apc[g]]
    /\ UNCHANGED <<enabledScopes, analyzerRun, skipScanners, enabledScanners, scannerRun,
                   resultCh, allResults, results, scanFindings, copilotCh, scannerCh, ret>>
    /\ UNCHANGED outsideAnalysis

\* The goroutine of scanner s: Run returns, the result is sent, which waits
\* while the channel is full, and the wait group is released.
ScannerRun(s) ==
    /\ apc[s] = "run"
    /\ Len(results) < resultsCap
    /\ results' = Append(results,
                         [Scanner |-> s, Findings |-> scannerRun[s].findings,
                          Error |-> scannerRun[s].err])
    /\ apc' = [apc EXCEPT ![s] = "done"]
    /\ UNCHANGED <<enabledScopes, analyzerRun, skipScanners, enabledScanners, scannerRun,
                   resultCh, allResults, scanFindings, copilotCh, scannerCh, ret>>
    /\ UNCHANGED outsideAnalysis

\* RunAll: wg.Wait returns once every scanner is done, and the channel is closed.
WaitScanners ==
    /\ apc["scanners"] = "wait"
    /\ \A k \in DOMAIN enabledScanners : apc[enabledScanners[k]] = "done"
    /\ apc' = [apc EXCEPT !["scanners"] = "range"]
    /\ UNCHANGED <<enabledScopes, analyzerRun, skipScanners, enabledScanners, scannerRun,
                   resultCh, allResults, results, scanFindings, copilotCh, scannerCh, ret>>
    /\ UNCHANGED outsideAnalysis

\* RunAll: the next result of the closed channel; its findings are appended
\* unless it carries an error.
RangeResults ==
    /\ apc["scanners"] = "range"
    /\ Len(results) > 0
    /\ scanFindings' = IF Head(results).Error THEN scanFindings
                       ELSE scanFindings \o Head(results).Findings
    /\ results' = Tail(results)
    /\ UNCHANGED <<enabledScopes, analyzerRun, skipScanners, enabledScanners, scannerRun,
                   apc, resultCh, allResults, copilotCh, scannerCh, ret>>
    /\ UNCHANGED outsideAnalysis

\* RunAll returns; the scanner goroutine sends the findings.
ScannersReturn ==
    /\ apc["scanners"] = "range"
    /\ Len(results) = 0
    /\ Len(scannerCh) < scannerChCap
    /\ scannerCh' = Append(scannerCh, Found(scanFindings))
    /\ apc' = [apc EXCEPT !["scanners"] = "done"]
    /\ UNCHANGED <<enabledScopes, analyzerRun, skipScanners, enabledScanners, scannerRun,
                   resultCh, allResults, results, scanFindings, copilotCh, ret>>
    /\ UNCHANGED outsideAnalysis

\* runAnalysisWithScanners: both goroutines have sent, so that the two
\* receives go through.
BothSent ==
    /\ apc["main"] = "collect"
    /\ Len(copilotCh) > 0
    /\ Len(scannerCh) > 0

\* runAnalysisWithScanners: both results are received and the Copilot result
\* carries an error, which is returned.
ReturnError ==
    /\ BothSent
    /\ Head(copilotCh).err
    /\ ret' = Failed
    /\ copilotCh' = Tail(copilotCh)
    /\ scannerCh' = Tail(scannerCh)
    /\ apc' = [apc EXCEPT !["main"] = "done"]
    /\ UNCHANGED <<enabledScopes, analyzerRun, skipScanners, enabledScanners, scannerRun,
                   resultCh, allResults, results, scanFindings>>
    /\ UNCHANGED outsideAnalysis

\* runAnalysisWithScanners: both results are received and merged.
ReturnMerged ==
    /\ BothSent
    /\ ~Head(copilotCh).err
    /\ ret' = Found(Merge(<<Head(copilotCh).findings, Head(scannerCh).findings>>))
    /\ copilotCh' = Tail(copilotCh)
    /\ scannerCh' = Tail(scannerCh)
    /\ apc' = [apc EXCEPT !["main"] = "done"]
    /\ UNCHANGED <<enabledScopes, analyzerRun, skipScanners, enabledScanners, scannerRun,
                   resultCh, allResults, results, scanFindings>>
    /\ UNCHANGED outsideAnalysis

NextAnalysis ==
    \/ NoScopes
    \/ StartScopes
    \/ \E s \in Range(scopes) : ScopeRun(s)
    \/ Collect
    \/ AnalysisFails
    \/ AnalysisMerges
    \/ SkipScanners
    \/ NoScanners
    \/ StartScanners
    \/ \E s \in Range(defaultScanners) : ScannerRun(s)
    \/ WaitScanners
    \/ RangeResults
    \/ ScannersReturn
    \/ ReturnError
    \/ ReturnMerged

SpecAnalysis == InitAnalysis /\ [][NextAnalysis]_vars

----------------------------------------------------------------------------
(* MergeWithContext: an external deduplicator with the grouping engine as *)
(* the fallback                                                           *)

\* What a deduplicator that succeeds may return for the list findings.
Deduplications(findings) ==
    {<<>>, findings} \cup {<<findings[k]>> : k \in DOMAIN findings}

InitContext ==
    /\ \E list \in ListsUpTo(MaxFindings) :
           findingArrays = <<SubSeq(list, 1, Len(list) \div 2),
                             SubSeq(list, Len(list) \div 2 + 1, Len(list))>>
    /\ deduplicator \in {"nil", "ai"}
    /\ err = FALSE
    /\ stdout = NoOutput
    /\ heap = <<>>
    /\ all = <<>>
    /\ pc = "start"
    /\ i = 0
    /\ j = 0
    /\ merged = <<>>
    /\ base = NoFinding
    /\ result = <<>>
    /\ members = {}
    /\ clusters = <<>>
    /\ run = 1
    /\ first = <<>>
    /\ NoAnalysis
    /\ NoFilter

\* The arguments are combined.
ContextStart ==
    /\ pc = "start"
    /\ all' = Concat(findingArrays)
    /\ pc' = "deduplicate"
    /\ UNCHANGED <<findingArrays, merged, result, deduplicator, err, stdout>>
    /\ UNCHANGED outsideContext

\* There is no deduplicator: local grouping.
LocalGrouping ==
    /\ pc = "deduplicate"
    /\ deduplicator = "nil"
    /\ merged' = groupAndMerge(all)
    /\ pc' = "sort"
    /\ UNCHANGED <<findingArrays, all, result, deduplicator, err, stdout>>
    /\ UNCHANGED outsideContext

\* Deduplicate returns a list and no error: the list is used, even if empty.
DeduplicateSucceeds ==
    /\ pc = "deduplicate"
    /\ deduplicator # "nil"
    /\ \E deduplicated \in Deduplications(all) : merged' = deduplicated
    /\ err' = FALSE
    /\ pc' = "sort"
    /\ UNCHANGED <<findingArrays, all, result, deduplicator, stdout>>
    /\ UNCHANGED outsideContext

\* DeduplicateFails with the list that came with the error used as it is.
DeduplicateFails_NoFallback ==
    /\ pc = "deduplicate"
    /\ deduplicator # "nil"
    /\ merged' = <<>>
    /\ err' = TRUE
    /\ pc' = "sort"
    /\ UNCHANGED <<findingArrays, all, result, deduplicator, stdout>>
    /\ UNCHANGED outsideContext

\* Deduplicate returns an error: fallback to local grouping.
DeduplicateFails ==
    /\ pc = "deduplicate"
    /\ deduplicator # "nil"
    /\ merged' = groupAndMerge(all)
    /\ err' = TRUE
    /\ pc' = "sort"
    /\ UNCHANGED <<findingArrays, all, result, deduplicator, stdout>>
    /\ UNCHANGED outsideContext

\* sort.Sort(BySeverity(merged)); MergeWithContext returns merged.
ContextSort ==
    /\ pc = "sort"
    /\ result' = SortBySeverity(merged)
    /\ pc' = "done"
    /\ UNCHANGED <<findingArrays, all, merged, deduplicator, err, stdout>>
    /\ UNCHANGED outsideContext

NextContext ==
    \/ ContextStart
    \/ LocalGrouping
    \/ DeduplicateSucceeds
    \/ DeduplicateFails
    \/ ContextSort

SpecContext == InitContext /\ [][NextContext]_vars

----------------------------------------------------------------------------
(* Properties *)

\* Inputs m and n of the current call are represented by the same output.
SameCluster(m, n) == \E k \in DOMAIN clusters : {m, n} \subseteq clusters[k]

\* x is a score in the closed interval [0,1].
InUnit(x) == RatGeq(x, Rat(0, 1)) /\ RatGeq(Rat(1, 1), x)

\* The first call of Merge has returned.
FirstDone == pc = "done" /\ run = 1

\* C1: every finding returned by deduplicate/Merge carries the severity of one
\* of the inputs merged into it, and no input merged into it is more severe
\* (ordinal high < medium < low < unknown).
C1_MergedSeverityIsMostSevere ==
    \A k \in DOMAIN result :
        /\ \E m \in clusters[k] : all[m].Severity = result[k].Severity
        /\ \A m \in clusters[k] :
               severityValue(result[k].Severity) <= severityValue(all[m].Severity)

\* C1 witness: Merge returned an output whose severity comes from a member that
\* is more severe than the first member of its cluster.
C1_Witness ==
    /\ FirstDone
    /\ \E k \in DOMAIN result : \E m, n \in clusters[k] :
           /\ m < n
           /\ severityValue(all[n].Severity) < severityValue(all[m].Severity)
           /\ result[k].Severity = all[n].Severity

\* C2: when Merge has returned, any two inputs with identical titles and
\* identical categories are represented by one output finding.
C2_IdenticalTitlesMerge ==
    FirstDone =>
        \A m, n \in DOMAIN all :
            (all[m].Title = all[n].Title /\ all[m].Category = all[n].Category)
                => SameCluster(m, n)

\* C3: the Files of every output finding that was produced by a merge is the
\* set union of the Files of the inputs merged into it, strictly increasing in
\* byte order (sorted, no duplicates).
C3_MergedFilesSortedUnion ==
    \A k \in DOMAIN result :
        Cardinality(clusters[k]) >= 2 =>
            LET files == result[k].Files
            IN  /\ Range(files) = UNION {Range(all[m].Files) : m \in clusters[k]}
                /\ \A a, b \in DOMAIN files : a < b => StringLess(files[a], files[b])

\* C3 witness: Merge returned an output merged from two inputs that share a
\* file, one of them listing its files out of order.
C3_Witness ==
    /\ FirstDone
    /\ \E k \in DOMAIN result : \E m, n \in clusters[k] :
           /\ m # n
           /\ Range(all[m].Files) \cap Range(all[n].Files) # {}
           /\ \E a, b \in DOMAIN all[m].Files :
                  a < b /\ StringLess(all[m].Files[b], all[m].Files[a])
           /\ Len(result[k].Files) >= 2

\* C4: two inputs in different categories are never represented by the same
\* output finding, whatever their similarity is (so in particular when it is
\* below a cross-category threshold).
C4_NoCrossCategoryMerge ==
    /\ \A k \in DOMAIN clusters : \A m, n \in clusters[k] :
           all[m].Category = all[n].Category
    /\ \A m \in members : all[m].Category = base.Category

\* C4 witness: Merge returned with two inputs of different categories, whose
\* similarity is below the merge threshold, in different outputs.
C4_Witness ==
    /\ FirstDone
    /\ \E m, n \in DOMAIN all :
           /\ all[m].Category # all[n].Category
           /\ ~RatGeq(calculateSimilarity(all[m], all[n]), Rat(MergeThreshold, 100))
           /\ ~SameCluster(m, n)

\* C5: when Merge has returned, two inputs in different categories whose
\* similarity is the highest possible (1.0, at or above any cross-category
\* threshold) are represented by one output, which is at least as severe as both.
C5_VerySimilarCrossCategoryMerge ==
    FirstDone =>
        \A m, n \in DOMAIN all :
            (/\ all[m].Category # all[n].Category
             /\ RatGeq(calculateSimilarity(all[m], all[n]), Rat(1, 1)))
                => \E k \in DOMAIN clusters :
                       /\ {m, n} \subseteq clusters[k]
                       /\ severityValue(result[k].Severity) <= severityValue(all[m].Severity)
                       /\ severityValue(result[k].Severity) <= severityValue(all[n].Severity)

\* C6: when Merge has returned, two same-category inputs with different titles
\* of fewer than 3 tokens each, no description, no recommendation and no shared
\* file are not represented by the same output.
C6_GenericTitlesNotMerged ==
    FirstDone =>
        \A m, n \in DOMAIN all :
            (/\ m # n
             /\ all[m].Category = all[n].Category
             /\ all[m].Title # all[n].Title
             /\ Len(tokenize(ToLower(all[m].Title))) < 3
             /\ Len(tokenize(ToLower(all[n].Title))) < 3
             /\ all[m].Description = <<>> /\ all[n].Description = <<>>
             /\ all[m].Recommendation = <<>> /\ all[n].Recommendation = <<>>
             /\ Range(all[m].Files) \cap Range(all[n].Files) = {})
                => ~SameCluster(m, n)

\* C7: Merge of exactly the two security findings "S3 bucket lacks encryption"
\* [storage.tf] and "S3 bucket missing encryption" [backup.tf], with no other
\* text, returns one finding with files [backup.tf, storage.tf].
C7_S3ExampleMerges ==
    (/\ FirstDone
     /\ Len(all) = 2
     /\ \A m \in 1..2 :
            /\ all[m].Category = CategorySecurity
            /\ all[m].Description = <<>>
            /\ all[m].Recommendation = <<>>
     /\ all[1].Title = T_S3Lacks /\ all[1].Files = <<F_storage>>
     /\ all[2].Title = T_S3Missing /\ all[2].Files = <<F_backup>>)
        => (Len(result) = 1 /\ result[1].Files = <<F_backup, F_storage>>)

\* C8: Merge applied to the list returned by Merge returns that same list.
C8_MergeIdempotent == (pc = "done" /\ run = 2) => result = first

\* C9: in the list returned by Merge no two distinct findings satisfy the merge
\* rule (same category and a score of at least the threshold) against each other.
C9_NoMergeableOutputs ==
    FirstDone =>
        \A k, l \in DOMAIN result : k # l => ~shouldMerge(result[k], result[l])

\* C10: every score computed while deduplicating (calculateSimilarity of the
\* base and a candidate, tokenSimilarity of their titles, descriptions and
\* recommendations) lies in [0,1].
C10_ScoresInUnitInterval ==
    (pc = "inner" /\ j <= Len(all)) =>
        /\ InUnit(calculateSimilarity(base, all[j]))
        /\ InUnit(tokenSimilarity(base.Title, all[j].Title))
        /\ InUnit(tokenSimilarity(base.Description, all[j].Description))
        /\ InUnit(tokenSimilarity(base.Recommendation, all[j].Recommendation))

\* The (file, start_line, end_line) keys of the code snippets of finding f.
SnippetKeys(f) ==
    {<<f.CodeSnippets[n].File, f.CodeSnippets[n].StartLine, f.CodeSnippets[n].EndLine>> :
        n \in DOMAIN f.CodeSnippets}

\* C11: a merged finding carries the union of its members' code snippets, one
\* snippet for each (file, start_line, end_line) key.
C11_MergedSnippetsUnionByKey ==
    FirstDone =>
        \A k \in DOMAIN result :
            Cardinality(clusters[k]) > 1 =>
                /\ SnippetKeys(result[k]) = UNION {SnippetKeys(all[m]) : m \in clusters[k]}
                /\ Len(result[k].CodeSnippets) = Cardinality(SnippetKeys(result[k]))

\* deduplicate has returned in the first call of Merge.
Deduplicated == pc \in {"sort", "done"} /\ run = 1

\* C12: a finding that merged with no other finding is in the output of
\* deduplicate with every field as in the input, files order and code snippets
\* included.
C12_SingletonUnchanged ==
    Deduplicated =>
        \A k \in DOMAIN result : \A m \in DOMAIN all :
            clusters[k] = {m} => result[k] = all[m]

\* A finding with unsorted files and a code snippet stayed alone among others.
C12_Witness ==
    /\ Deduplicated
    /\ Len(all) > 1
    /\ \E k \in DOMAIN result : \E m \in DOMAIN all :
           /\ clusters[k] = {m}
           /\ all[m] = S3d
           /\ all[m].Files # SortStrings(Range(all[m].Files))
           /\ all[m].CodeSnippets # <<>>

\* C13: the list returned by Merge is ordered by the ordinal high=0, medium=1,
\* low=2, unknown=3, so that a finding of unknown severity comes after every
\* high, medium and low finding.
C13_UnknownSeverityLast ==
    FirstDone =>
        \A k, l \in DOMAIN result :
            k < l => severityValue(result[k].Severity) <= severityValue(result[l].Severity)

\* The input position of the representative of a cluster: its first member.
Representative(c) == CHOOSE m \in c : \A n \in c : m <= n

\* C14: the severity sort of Merge is stable: output findings of equal
\* severity are in the order in which deduplicate produced their clusters,
\* whatever the length of the list.
C14_SortStable ==
    FirstDone =>
        \A k, l \in DOMAIN result :
            (k < l /\ result[k].Severity = result[l].Severity)
                => Representative(clusters[k]) < Representative(clusters[l])

\* runAnalysisWithScanners has returned.
Returned == apc["main"] = "done"

\* The findings of the enabled collectors of a list that did not fail, joined
\* in the order of the list.
RECURSIVE JoinInOrder(_, _)
JoinInOrder(names, outcome) ==
    IF names = <<>> THEN <<>>
    ELSE (IF outcome[Head(names)].err THEN <<>> ELSE outcome[Head(names)].findings)
             \o JoinInOrder(Tail(names), outcome)

\* C15: the slices of the concurrent collectors are joined in the fixed scope
\* order and the fixed scanner order, whichever goroutine finishes first, so
\* that the list handed to Merge and the result are the same in every
\* interleaving.
C15_JoinOrderFixed ==
    /\ (apc["copilot"] = "done" /\ Len(enabledScopes) > 0) =>
           [k \in DOMAIN allResults |-> allResults[k].scope] = enabledScopes
    /\ (apc["scanners"] = "done" /\ ~skipScanners) =>
           scanFindings = JoinInOrder(enabledScanners, scannerRun)
    /\ (Returned /\ ~ret.err) =>
           ret.findings =
               Merge(<<Merge(<<JoinInOrder(enabledScopes, analyzerRun)>>),
                       IF skipScanners THEN <<>>
                       ELSE JoinInOrder(enabledScanners, scannerRun)>>)

\* C16: a scope whose analysis fails contributes no findings and the run
\* still returns the merged findings of the other scopes and of the scanners.
C16_FailedScopeIsEmptyContribution ==
    Returned =>
        /\ ~ret.err
        /\ ret.findings =
               Merge(<<Merge([k \in DOMAIN allResults |->
                                 IF allResults[k].err THEN <<>> ELSE allResults[k].findings]),
                       IF skipScanners THEN <<>> ELSE scanFindings>>)

\* C17: with no deduplicator, or one whose Deduplicate returns an error,
\* MergeWithContext returns groupAndMerge of the concatenated inputs sorted by
\* severity; the error is not passed on.
C17_FallbackToLocalGrouping ==
    (pc = "done" /\ (deduplicator = "nil" \/ err)) =>
        result = SortBySeverity(groupAndMerge(Concat(findingArrays)))

\* A deduplicator failed on a list that local grouping shortens.
C17_Witness ==
    /\ pc = "done"
    /\ deduplicator # "nil"
    /\ err
    /\ Len(result) > 0
    /\ Len(result) < Len(all)


-----------------------------------------------------------------------------
\* Merge on slices with backing arrays.  A slice is a header naming a backing
\* array, a length and a capacity (arr = 0 is the nil slice); heap[a] holds the
\* cells of array a, one per unit of capacity.  A finding in a cell carries
\* the header of its Files slice, so that copying a finding shares its Files.

NilSlice == [arr |-> 0, len |-> 0, cap |-> 0]

\* The elements that the slice s shows.
Contents(h, s) ==
    IF s.arr = 0 THEN <<>> ELSE SubSeq(h[s.arr], 1, s.len)

\* The finding f with its Files read out of the heap.
Value(h, f) == [f EXCEPT !.Files = Contents(h, f.Files)]

\* make([]T, n, n) filled with elems: a new array behind all existing ones.
NewArray(h, elems) ==
    [heap  |-> Append(h, elems),
     slice |-> [arr |-> Len(h) + 1, len |-> Len(elems), cap |-> Len(elems)]]

\* append(s, t...): every way it can come out.  Nothing to append gives s
\* back; spare capacity is written in place; otherwise the elements move to a
\* new array whose capacity the runtime rounds up (by at most one cell here).
appendSlice(h, s, t) ==
    LET elems == Contents(h, t)
        need  == s.len + t.len
    IN  IF t.len = 0
        THEN {[heap |-> h, slice |-> s]}
        ELSE IF s.arr # 0 /\ need <= s.cap
        THEN {[heap  |-> [h EXCEPT ![s.arr] =
                             [c \in 1..s.cap |->
                                 IF c > s.len /\ c <= need
                                 THEN elems[c - s.len] ELSE @[c]]],
               slice |-> [s EXCEPT !.len = need]]}
        ELSE {[heap  |-> Append(h, [c \in 1..(need + extra) |->
                                     IF c <= s.len THEN Contents(h, s)[c]
                                     ELSE IF c <= need THEN elems[c - s.len]
                                     ELSE NoFinding]),
               slice |-> [arr |-> Len(h) + 1, len |-> need, cap |-> need + extra]]
              : extra \in {0, 1}}

\* sort.Strings on a slice of strings: the same strings in increasing order.
sortStrings(seq) ==
    LET ins[k \in 0..Len(seq)] ==
            IF k = 0 THEN <<>>
            ELSE LET upTo == Cardinality({m \in 1..(k - 1) : ~StringLess(seq[k], ins[k - 1][m])})
                 IN  SubSeq(ins[k - 1], 1, upTo) \o <<seq[k]>> \o SubSeq(ins[k - 1], upTo + 1, k - 1)
    IN  ins[Len(seq)]

\* The strings of the slice s put in increasing order where they are.
sortInPlace(h, s) ==
    IF s.arr = 0 THEN h
    ELSE [h EXCEPT ![s.arr] = sortStrings(SubSeq(@, 1, s.len)) \o SubSeq(@, s.len + 1, Len(@))]

\* The merged finding v placed in memory: its Files is a slice made for it
\* (make, then append, then sort.Strings on that slice).
withNewFiles(h, v) ==
    [heap    |-> Append(h, v.Files),
     finding |-> [v EXCEPT !.Files = [arr |-> Len(h) + 1, len |-> Len(@), cap |-> Len(@)]]]

\* A variant of mergeFindings that sorts the Files of both findings where
\* they are before uniting them.
mergeFindingsHeap_SortsInputs(h, a, b) ==
    withNewFiles(sortInPlace(sortInPlace(h, a.Files), b.Files),
                 mergeFindings(Value(h, a), Value(h, b)))

\* mergeFindings: the merged finding is a new struct with a new Files slice;
\* a and b are only read.
mergeFindingsHeap(h, a, b) ==
    withNewFiles(h, mergeFindings(Value(h, a), Value(h, b)))

\* The state of the inner loop after a merge at position k gave r.
heapMerged(st, r, k) ==
    [heap |-> r.heap, base |-> r.finding, merged |-> st.merged \cup {k}]

\* The inner loop body of deduplicate at position k: base is a copy of a
\* finding, and a merge replaces it by the struct mergeFindings returns.
heapInnerStep(findings, st, k) ==
    IF k \notin st.merged /\ shouldMerge(Value(st.heap, st.base), Value(st.heap, findings[k]))
    THEN heapMerged(st, mergeFindingsHeap(st.heap, st.base, findings[k]), k)
    ELSE st

\* The inner loop of deduplicate from position from on.
heapInner(findings, st, from) ==
    LET after[k \in (from - 1)..Len(findings)] ==
            IF k < from THEN st ELSE heapInnerStep(findings, after[k - 1], k)
    IN  after[Len(findings)]

\* result = append(result, base) after the inner loop.
heapAppendBase(st, r) ==
    [heap |-> r.heap, merged |-> r.merged, result |-> Append(st.result, r.base)]

\* The outer loop body of deduplicate at position k.
heapOuterStep(findings, st, k) ==
    IF k \in st.merged
    THEN st
    ELSE heapAppendBase(st, heapInner(findings,
             [heap |-> st.heap, base |-> findings[k], merged |-> st.merged], k + 1))

\* The slice deduplicate returns: result grew by append from nil, so it has
\* an array of its own (the arrays it outgrew on the way are unreachable).
heapResult(st) == NewArray(st.heap, st.result)

\* The loops of deduplicate over the findings of a slice.
heapLoops(h, findings) ==
    LET after[k \in 0..Len(findings)] ==
            IF k = 0 THEN [heap |-> h, merged |-> {}, result |-> <<>>]
            ELSE heapOuterStep(findings, after[k - 1], k)
    IN  heapResult(after[Len(findings)])

\* deduplicate(findings) on the slice s: an empty slice is returned as it is.
heapDeduplicate(h, s) ==
    IF s.len = 0
    THEN [heap |-> h, slice |-> s]
    ELSE heapLoops(h, Contents(h, s))

\* sort.Sort(BySeverity(s)): Swap exchanges cells of the array of s.
heapSort(h, s) ==
    IF s.arr = 0 \/ s.len = 0
    THEN h
    ELSE [h EXCEPT ![s.arr] =
             [c \in DOMAIN @ |->
                 IF c <= s.len THEN @[SortOrder(Contents(h, s))[c]] ELSE @[c]]]

\* The caller's findings laid out in memory: array 1 and array 2 behind the two
\* arguments (the first with spare cells), array 2 + m behind the Files of
\* the m-th finding.
CallerHeap(list, k, spare) ==
    LET cell(m) == [list[m] EXCEPT !.Files =
                       IF Len(list[m].Files) = 0 THEN NilSlice
                       ELSE [arr |-> 2 + m, len |-> Len(@), cap |-> Len(@)]]
    IN  <<[c \in 1..(k + spare) |-> IF c <= k THEN cell(c) ELSE NoFinding],
          [c \in 1..(Len(list) - k) |-> cell(k + c)]>>
        \o [m \in 1..Len(list) |-> list[m].Files]

\* The findings the caller may hold: with one file, with files out of order,
\* with none.
HeapPool == {S3a, S3c, S3d, SecA, SecB}

\* A caller holds up to MaxFindings findings in two slices and calls Merge.
InitHeap ==
    /\ \E list \in UNION {[1..m -> HeapPool] : m \in 0..MaxFindings}, spare \in {0, 1} :
         \E k \in 0..Len(list) :
            /\ heap = CallerHeap(list, k, spare)
            /\ findingArrays = <<[arr |-> 1, len |-> k, cap |-> k + spare],
                                 [arr |-> 2, len |-> Len(list) - k, cap |-> Len(list) - k]>>
    /\ all = NilSlice
    /\ result = NilSlice
    /\ pc = "append"
    /\ i = 1
    /\ j = 0
    /\ merged = {}
    /\ base = NoFinding
    /\ members = {}
    /\ clusters = <<>>
    /\ run = 0
    /\ first = <<>>
    /\ NoAnalysis
    /\ deduplicator = "nil"
    /\ err = FALSE
    /\ stdout = NoOutput
    /\ NoFilter

\* all = append(all, findings...) for the next argument.
HeapAppend ==
    /\ pc = "append"
    /\ i <= Len(findingArrays)
    /\ \E r \in appendSlice(heap, all, findingArrays[i]) :
          /\ heap' = r.heap
          /\ all' = r.slice
    /\ i' = i + 1
    /\ UNCHANGED <<findingArrays, pc, result>>
    /\ UNCHANGED outsideHeap

\* deduplicated := deduplicate(all)
HeapDeduplicate ==
    /\ pc = "append"
    /\ i > Len(findingArrays)
    /\ \E r \in {heapDeduplicate(heap, all)} :
          /\ heap' = r.heap
          /\ result' = r.slice
    /\ pc' = "sort"
    /\ UNCHANGED <<findingArrays, all, i>>
    /\ UNCHANGED outsideHeap

\* sort.Sort(BySeverity(deduplicated)); return deduplicated
HeapSort ==
    /\ pc = "sort"
    /\ heap' = heapSort(heap, result)
    /\ pc' = "done"
    /\ UNCHANGED <<findingArrays, all, i, result>>
    /\ UNCHANGED outsideHeap

NextHeap ==
    \/ HeapAppend
    \/ HeapDeduplicate
    \/ HeapSort

SpecHeap == InitHeap /\ [][NextHeap]_vars

\* The arrays the caller can reach through the arguments: those behind the
\* argument slices and those behind the Files of the findings in them.
InputArrays ==
    ({findingArrays[a].arr : a \in DOMAIN findingArrays}
        \cup UNION {{heap[findingArrays[a].arr][c].Files.arr :
                        c \in 1..findingArrays[a].len} :
                    a \in DOMAIN findingArrays})
        \ {0}

\* C18: Merge and deduplicate leave their arguments alone: no step writes a
\* cell of an array behind an argument slice or behind the Files of a finding
\* in one, and no step changes an argument slice itself, so that after the
\* call every input slice and every input finding is what it was before.
C18_InputsUnchanged ==
    [][/\ findingArrays' = findingArrays
       /\ \A a \in InputArrays : heap'[a] = heap[a]]_vars

\* A call has returned in which findings were merged and the sort moved the
\* result, and in which one merged finding had its Files out of order.
C18_Witness ==
    /\ pc = "done"
    /\ 0 < result.len
    /\ result.len < all.len
    /\ \E c \in 1..all.len :
          /\ Contents(heap, all)[c].Files.arr # 0
          /\ Value(heap, Contents(heap, all)[c]).Files
                 # sortStrings(Value(heap, Contents(heap, all)[c]).Files)
    /\ Contents(heap, result)[1].ID # Contents(heap, all)[1].ID
    /\ Contents(heap, result)[result.len].ID = Contents(heap, all)[1].ID


-----------------------------------------------------------------------------
(* The ignore filter: Filter, shouldIgnore and IgnoreConfig *)

\* strings.HasPrefix
HasPrefix(s, prefix) ==
    /\ Len(s) >= Len(prefix)
    /\ SubSeq(s, 1, Len(prefix)) = prefix

\* strings.TrimPrefix and strings.TrimSuffix
TrimPrefix(s, prefix) ==
    IF HasPrefix(s, prefix) THEN SubSeq(s, Len(prefix) + 1, Len(s)) ELSE s

TrimSuffix(s, suffix) ==
    IF HasSuffix(s, suffix) THEN SubSeq(s, 1, Len(s) - Len(suffix)) ELSE s

\* filepath.Match for patterns made of literal characters and stars: a star
\* stands for any run of characters other than the separator.
RECURSIVE Match(_, _)
Match(pattern, name) ==
    IF pattern = <<>> THEN name = <<>>
    ELSE IF Head(pattern) = "*"
    THEN \E k \in 0..Len(name) :
            /\ \A m \in 1..k : name[m] # "/"
            /\ Match(Tail(pattern), SubSeq(name, k + 1, Len(name)))
    ELSE /\ name # <<>>
         /\ Head(name) = Head(pattern)
         /\ Match(Tail(pattern), Tail(name))

\* matchesGlobPattern: a pattern that starts with two stars is matched again
\* without them.
matchesGlobPattern(path, pattern) ==
    /\ Len(pattern) > 2
    /\ SubSeq(pattern, 1, 2) = <<"*", "*">>
    /\ Match(SubSeq(pattern, 3, Len(pattern)), path)

\* IgnoreConfig.MatchesPath
MatchesPath(c, path) ==
    \E k \in DOMAIN c.IgnorePaths :
        \/ Match(c.IgnorePaths[k], path)
        \/ matchesGlobPattern(path, c.IgnorePaths[k])

\* IgnoreConfig.GetAcceptedIDs: the IDs of the accepted items, as a set.
GetAcceptedIDs(c) == {c.Accepted[k].ID : k \in DOMAIN c.Accepted}

\* Whether the lower-cased title matches the lower-cased pattern.
titleMatches(titleLower, patternLower) ==
    IF HasPrefix(patternLower, <<"*">>) /\ HasSuffix(patternLower, <<"*">>)
    THEN Contains(titleLower, Trim(patternLower, {"*"}))
    ELSE IF HasPrefix(patternLower, <<"*">>)
    THEN HasSuffix(titleLower, TrimPrefix(patternLower, <<"*">>))
    ELSE IF HasSuffix(patternLower, <<"*">>)
    THEN HasPrefix(titleLower, TrimSuffix(patternLower, <<"*">>))
    ELSE Contains(titleLower, patternLower)

\* A variant of shouldIgnore that compares titles and patterns as written.
shouldIgnore_CaseSensitive(finding, c, acceptedIDs) ==
    \/ finding.ID \in acceptedIDs
    \/ \E k \in DOMAIN c.IgnorePatterns :
          titleMatches(finding.Title, c.IgnorePatterns[k])
    \/ \E k \in DOMAIN finding.Files : MatchesPath(c, finding.Files[k])

shouldIgnore(finding, c, acceptedIDs) ==
    \/ finding.ID \in acceptedIDs
    \/ \E k \in DOMAIN c.IgnorePatterns :
          titleMatches(ToLower(finding.Title), ToLower(c.IgnorePatterns[k]))
    \/ \E k \in DOMAIN finding.Files : MatchesPath(c, finding.Files[k])

\* Titles that hold the word issue at the end, at the start (capitalised), in
\* the middle and not at all.
T_IssueEnd == <<"P","r","o","d"," ","i","s","s","u","e">>

T_IssueStart == <<"I","s","s","u","e"," ","o","f"," ","d","e","m","o">>

T_IssueMiddle == <<"A","n"," ","i","s","s","u","e"," ","h","e","r","e">>

T_NoIssue == <<"C","a","c","h","e">>

F_example == <<"e","x","a","m","p","l","e","s","/","a",".","t","f">>

\* The findings handed to Filter.
FilterPool ==
    {Finding("SEC-001", CategorySecurity, T_IssueEnd, SeverityHigh, <<>>, <<>>, <<F_main>>),
     Finding("SEC-002", CategorySecurity, T_IssueStart, SeverityLow, <<>>, <<>>, <<F_example>>),
     Finding("PIPE-001", CategoryPipeline, T_IssueMiddle, SeverityMedium, <<>>, <<>>, <<>>),
     Finding("SEC-003", CategorySecurity, T_NoIssue, SeverityLow, <<>>, <<>>,
             <<F_main, F_example>>)}

AcceptedItem(id) == [ID |-> id]

\* The accepted lists, title patterns and path patterns of the configurations.
AcceptedLists ==
    {<<>>, <<AcceptedItem("SEC-001")>>, <<AcceptedItem("PIPE-001"), AcceptedItem("SEC-009")>>}

PatternLists ==
    {<<>>, <<<<"*","i","s","s","u","e","*">>>>, <<<<"*","i","s","s","u","e">>>>, <<<<"I","S","S","U","E","*">>>>, <<<<"I","s","s","u","e">>>>, <<<<"*">>>>,
     <<<<"c","a","c","h","e">>, <<"*","i","s","s","u","e">>>>}

PathLists ==
    {<<>>, <<<<"e","x","a","m","p","l","e","s","/","*">>>>, <<<<"*",".","t","f">>>>, <<<<"*","*","/","m","a","i","n",".","t","f">>>>,
     <<<<"*","*","/","m","a","i","n",".","t","f">>, <<"e","x","a","m","p","l","e","s","/","*">>>>}

\* Filter is called with up to MaxFindings findings and a configuration.
InitFilter ==
    /\ all \in UNION {[1..m -> FilterPool] : m \in 0..MaxFindings}
    /\ cfg \in [Accepted : AcceptedLists, IgnorePaths : PathLists, IgnorePatterns : PatternLists]
    /\ ignoredCount = 0
    /\ issueNums = <<>>
    /\ labeled = {}
    /\ assigned = <<>>
    /\ result = <<>>
    /\ i = 1
    /\ pc = "filter"
    /\ findingArrays = <<>>
    /\ j = 0
    /\ merged = {}
    /\ base = NoFinding
    /\ members = {}
    /\ clusters = <<>>
    /\ run = 0
    /\ first = <<>>
    /\ NoAnalysis
    /\ NoContext

\* The loop body of Filter when shouldIgnore holds: ignoredCount++; continue
FilterIgnore ==
    /\ pc = "filter"
    /\ i <= Len(all)
    /\ shouldIgnore(all[i], cfg, GetAcceptedIDs(cfg))
    /\ ignoredCount' = ignoredCount + 1
    /\ i' = i + 1
    /\ UNCHANGED <<all, cfg, result, pc>>
    /\ UNCHANGED outsideFilter

\* The loop body of Filter otherwise: filtered = append(filtered, finding)
FilterKeep ==
    /\ pc = "filter"
    /\ i <= Len(all)
    /\ ~shouldIgnore(all[i], cfg, GetAcceptedIDs(cfg))
    /\ result' = Append(result, all[i])
    /\ i' = i + 1
    /\ UNCHANGED <<all, cfg, ignoredCount, pc>>
    /\ UNCHANGED outsideFilter

\* return filtered, ignoredCount
FilterReturn ==
    /\ pc = "filter"
    /\ i > Len(all)
    /\ pc' = "filtered"
    /\ UNCHANGED <<all, cfg, ignoredCount, result, i>>
    /\ UNCHANGED outsideFilter

NextFilter ==
    \/ FilterIgnore
    \/ FilterKeep
    \/ FilterReturn

SpecFilter == InitFilter /\ [][NextFilter]_vars

\* The text x occurs in t: t is some u, then x, then some v.
Occurs(x, t) ==
    \E a \in 0..Len(t) : \E b \in a..Len(t) : SubSeq(t, a + 1, b) = x

\* The title t matches the pattern p, both in lower case: '*x*' when x occurs
\* in t, '*x' when t ends with x, 'x*' when t starts with x, and a pattern
\* without a star at either end when it occurs in t.
PatternCovers(p, t) ==
    IF Len(p) >= 2 /\ p[1] = "*" /\ p[Len(p)] = "*"
    THEN Occurs(SubSeq(p, 2, Len(p) - 1), t)
    ELSE IF Len(p) >= 1 /\ p[1] = "*"
    THEN \E a \in 0..Len(t) : SubSeq(t, a + 1, Len(t)) = SubSeq(p, 2, Len(p))
    ELSE IF Len(p) >= 1 /\ p[Len(p)] = "*"
    THEN \E b \in 0..Len(t) : SubSeq(t, 1, b) = SubSeq(p, 1, Len(p) - 1)
    ELSE Occurs(p, t)

\* The finding f is to be dropped under the configuration.
Dropped(f) ==
    \/ \E k \in DOMAIN cfg.Accepted : cfg.Accepted[k].ID = f.ID
    \/ \E k \in DOMAIN cfg.IgnorePatterns :
          PatternCovers(ToLower(cfg.IgnorePatterns[k]), ToLower(f.Title))
    \/ \E k \in DOMAIN f.Files : MatchesPath(cfg, f.Files[k])

\* The positions of the input whose findings are not to be dropped.
KeptPositions == {k \in DOMAIN all : ~Dropped(all[k])}

-----------------------------------------------------------------------------
(* Delegation to the coding agent: delegateIssues and the issues client *)

\* Largest issue number, and the number of delegateIssues runs followed.
MaxIssues == 2

MaxRuns == 3

Issues == 1..MaxIssues

\* Client.HasDelegatedLabel: the labels of the issue are fetched (which may
\* fail) and searched for the delegated label.
HasDelegatedLabel(issueNumber, fails) ==
    IF fails THEN [has |-> FALSE, err |-> TRUE]
    ELSE [has |-> issueNumber \in labeled, err |-> FALSE]

\* Client.AddDelegatedLabel: the labeled issues after the call.
AddDelegatedLabel(issueNumber, fails) ==
    IF fails THEN labeled ELSE labeled \cup {issueNumber}

\* Client.AssignCopilot: the assignments after the call.
AssignCopilot(issueNumber, fails) ==
    IF fails THEN assigned ELSE [assigned EXCEPT ![issueNumber] = @ + 1]

\* The issues exist, none is labeled or assigned, and nothing runs.
InitDelegation ==
    /\ issueNums = <<>>
    /\ labeled = {}
    /\ assigned = [n \in Issues |-> 0]
    /\ pc = "idle"
    /\ run = 0
    /\ findingArrays = <<>>
    /\ all = <<>>
    /\ result = <<>>
    /\ i = 0
    /\ j = 0
    /\ merged = {}
    /\ base = NoFinding
    /\ members = {}
    /\ clusters = <<>>
    /\ first = <<>>
    /\ NoAnalysis
    /\ NoContext
    /\ cfg = [Accepted |-> <<>>, IgnorePaths |-> <<>>, IgnorePatterns |-> <<>>]
    /\ ignoredCount = 0

\* delegateIssues is called with some issue numbers (none: it returns at once).
DelegateStart ==
    /\ pc = "idle"
    /\ run < MaxRuns
    /\ issueNums' \in UNION {[1..m -> Issues] : m \in 0..MaxIssues}
    /\ pc' = "delegating"
    /\ run' = run + 1
    /\ UNCHANGED <<labeled, assigned>>
    /\ UNCHANGED outsideDelegation

\* The loop body for an issue whose labels were fetched and hold the delegated
\* label: it is skipped.
DelegateSkip ==
    /\ pc = "delegating"
    /\ issueNums # <<>>
    /\ \E checkFails \in BOOLEAN :
          /\ ~HasDelegatedLabel(Head(issueNums), checkFails).err
          /\ HasDelegatedLabel(Head(issueNums), checkFails).has
    /\ issueNums' = Tail(issueNums)
    /\ UNCHANGED <<labeled, assigned, pc, run>>
    /\ UNCHANGED outsideDelegation

\* The loop body otherwise: a failed check is only warned about, the label
\* is added (a failure is only warned about), and the agent is assigned.
DelegateIssue ==
    /\ pc = "delegating"
    /\ issueNums # <<>>
    /\ \E checkFails, labelFails, assignFails \in BOOLEAN :
          /\ \/ HasDelegatedLabel(Head(issueNums), checkFails).err
             \/ ~HasDelegatedLabel(Head(issueNums), checkFails).has
          /\ labeled' = AddDelegatedLabel(Head(issueNums), labelFails)
          /\ assigned' = AssignCopilot(Head(issueNums), assignFails)
    /\ issueNums' = Tail(issueNums)
    /\ UNCHANGED <<pc, run>>
    /\ UNCHANGED outsideDelegation

\* The loop is over: the summary is printed and nil returned.
DelegateReturn ==
    /\ pc = "delegating"
    /\ issueNums = <<>>
    /\ pc' = "idle"
    /\ UNCHANGED <<issueNums, labeled, assigned, run>>
    /\ UNCHANGED outsideDelegation

NextDelegation ==
    \/ DelegateStart
    \/ DelegateSkip
    \/ DelegateIssue
    \/ DelegateReturn

SpecDelegation == InitDelegation /\ [][NextDelegation]_vars

\* C20: double delegation is prevented: over any sequence of delegateIssues
\* runs whose GitHub calls may fail one by one, no issue is assigned to the
\* coding agent more than once.
C20_AssignedAtMostOnce ==
    \A n \in DOMAIN assigned : assigned[n] <= 1


-----------------------------------------------------------------------------
(* Clusters, anchors and merged fields *)

\* The input position m belongs to a cluster whose representative comes
\* before position rep.
TakenBefore(m, rep) ==
    \E h \in DOMAIN clusters : Representative(clusters[h]) < rep /\ m \in clusters[h]

\* C21: grouping is anchored at the representative: a finding behind the
\* representative of a cluster, and not taken by an earlier cluster, is in the
\* cluster exactly when the rule holds between the original representative
\* and that finding.
C21_RepresentativeAnchored ==
    Deduplicated =>
        \A k \in DOMAIN clusters :
            \A m \in (Representative(clusters[k]) + 1)..Len(all) :
                (m \in clusters[k]) <=>
                    /\ ~TakenBefore(m, Representative(clusters[k]))
                    /\ shouldMerge(all[Representative(clusters[k])], all[m])

\* The member of the cluster c with the highest severity, the earliest of
\* them in input order.
MostSevereMember(c) ==
    CHOOSE m \in c :
        \A n \in c :
            \/ severityValue(all[m].Severity) < severityValue(all[n].Severity)
            \/ severityValue(all[m].Severity) = severityValue(all[n].Severity) /\ m <= n

\* C22: the severity, category, title and id of every output are those of one
\* member of its cluster: the one with the highest severity, and among those
\* tied for it the earliest in input order.
C22_FieldsFromMostSevereEarliest ==
    Deduplicated =>
        \A k \in DOMAIN result :
            /\ result[k].Severity = all[MostSevereMember(clusters[k])].Severity
            /\ result[k].Category = all[MostSevereMember(clusters[k])].Category
            /\ result[k].Title = all[MostSevereMember(clusters[k])].Title
            /\ result[k].ID = all[MostSevereMember(clusters[k])].ID

\* A cluster whose representative is less severe than two later members that
\* tie for the highest severity and differ in title and id.
C22_Witness ==
    /\ Deduplicated
    /\ \E k \in DOMAIN result : \E m, n \in clusters[k] :
           /\ Representative(clusters[k]) < m
           /\ m < n
           /\ m = MostSevereMember(clusters[k])
           /\ all[n].Severity = all[m].Severity
           /\ all[n].ID # all[m].ID
           /\ all[n].Title # all[m].Title
           /\ result[k].ID = all[m].ID


-----------------------------------------------------------------------------
(* calculateSimilarity, step by step *)

T_CacheTwice == <<"C","a","c","h","e"," ","c","a","c","h","e">>

T_CachePlan == <<"C","a","c","h","e"," ","b","u","i","l","d"," ","t","e","s","t"," ","p","l","a","n">>

\* The findings compared: the pool, a finding without files, a finding that
\* names a file twice, and two whose titles share one token.
ScorePool ==
    Pool \cup
    {Finding("SEC-007", CategorySecurity, T_S3Lacks, SeverityHigh, <<>>, <<>>, <<>>),
     Finding("SEC-008", CategorySecurity, T_S3Missing, SeverityMedium, D_Rest, <<>>,
             <<F_storage, F_storage>>),
     Finding("PIPE-003", CategoryPipeline, T_CacheTwice, SeverityLow, <<>>, <<>>, <<>>),
     Finding("PIPE-004", CategoryPipeline, T_CachePlan, SeverityLow, <<>>, <<>>, <<>>)}

\* A weight in hundredths as a score.
Weight(n) == Rat(n, 100)

\* score += sim * weight; weights += weight
AddSignal(acc, sim, weight) ==
    [score   |-> RatAdd(acc.score, RatMul(sim, Weight(weight))),
     weights |-> RatAdd(acc.weights, Weight(weight))]

\* calculateSimilarity(a, b) is called: all holds a and b, result holds score
\* and weights.
InitScore ==
    /\ all \in [1..2 -> ScorePool]
    /\ result = [score |-> Rat(0, 1), weights |-> Rat(0, 1)]
    /\ pc = "title"
    /\ findingArrays = <<>>
    /\ i = 0
    /\ j = 0
    /\ merged = {}
    /\ base = NoFinding
    /\ members = {}
    /\ clusters = <<>>
    /\ run = 0
    /\ first = <<>>
    /\ NoAnalysis
    /\ NoContext
    /\ NoFilter

\* 1. Title similarity
ScoreTitle ==
    /\ pc = "title"
    /\ result' = AddSignal(result, tokenSimilarity(all[1].Title, all[2].Title), TitleWeight)
    /\ pc' = "description"
    /\ UNCHANGED all
    /\ UNCHANGED outsideScore

\* 2. Description similarity, when both have descriptions
ScoreDescription ==
    /\ pc = "description"
    /\ all[1].Description # <<>> /\ all[2].Description # <<>>
    /\ result' = AddSignal(result, tokenSimilarity(all[1].Description, all[2].Description),
                           DescriptionWeight)
    /\ pc' = "recommendation"
    /\ UNCHANGED all
    /\ UNCHANGED outsideScore

SkipDescription ==
    /\ pc = "description"
    /\ ~(all[1].Description # <<>> /\ all[2].Description # <<>>)
    /\ pc' = "recommendation"
    /\ UNCHANGED <<all, result>>
    /\ UNCHANGED outsideScore

\* 3. Recommendation similarity, when both have recommendations
ScoreRecommendation ==
    /\ pc = "recommendation"
    /\ all[1].Recommendation # <<>> /\ all[2].Recommendation # <<>>
    /\ result' = AddSignal(result,
                           tokenSimilarity(all[1].Recommendation, all[2].Recommendation),
                           RecommendationWeight)
    /\ pc' = "files"
    /\ UNCHANGED all
    /\ UNCHANGED outsideScore

SkipRecommendation ==
    /\ pc = "recommendation"
    /\ ~(all[1].Recommendation # <<>> /\ all[2].Recommendation # <<>>)
    /\ pc' = "files"
    /\ UNCHANGED <<all, result>>
    /\ UNCHANGED outsideScore

\* 4. File overlap, when both have files
ScoreFiles ==
    /\ pc = "files"
    /\ Len(all[1].Files) > 0 /\ Len(all[2].Files) > 0
    /\ result' = AddSignal(result, calculateFileOverlap(all[1].Files, all[2].Files), FileWeight)
    /\ pc' = "divide"
    /\ UNCHANGED all
    /\ UNCHANGED outsideScore

SkipFiles ==
    /\ pc = "files"
    /\ ~(Len(all[1].Files) > 0 /\ Len(all[2].Files) > 0)
    /\ pc' = "divide"
    /\ UNCHANGED <<all, result>>
    /\ UNCHANGED outsideScore

\* return score / weights (0.0 when weights is 0)
ScoreReturn ==
    /\ pc = "divide"
    /\ result' = [result EXCEPT !.score = IF result.weights.num = 0 THEN Rat(0, 1)
                                          ELSE RatDiv(@, result.weights)]
    /\ pc' = "scored"
    /\ UNCHANGED all
    /\ UNCHANGED outsideScore

NextScore ==
    \/ ScoreTitle
    \/ ScoreDescription
    \/ SkipDescription
    \/ ScoreRecommendation
    \/ SkipRecommendation
    \/ ScoreFiles
    \/ SkipFiles
    \/ ScoreReturn

SpecScore == InitScore /\ [][NextScore]_vars

\* Both findings have a description, and both have a recommendation.
BothDescribed == all[1].Description # <<>> /\ all[2].Description # <<>>

BothRecommend == all[1].Recommendation # <<>> /\ all[2].Recommendation # <<>>

\* The weighted sum and the weight sum of the text signals: the title always,
\* description and recommendation when both findings have one.
TextSum ==
    RatAdd(RatMul(tokenSimilarity(all[1].Title, all[2].Title), Weight(TitleWeight)),
    RatAdd(IF BothDescribed
           THEN RatMul(tokenSimilarity(all[1].Description, all[2].Description),
                       Weight(DescriptionWeight))
           ELSE Rat(0, 1),
           IF BothRecommend
           THEN RatMul(tokenSimilarity(all[1].Recommendation, all[2].Recommendation),
                       Weight(RecommendationWeight))
           ELSE Rat(0, 1)))

TextWeights ==
    Weight(TitleWeight + (IF BothDescribed THEN DescriptionWeight ELSE 0)
                       + (IF BothRecommend THEN RecommendationWeight ELSE 0))

\* C23: calculateSimilarity returns the weighted sum of the included signals
\* over the sum of their weights, where the title (0.35) and the file overlap
\* (0.25) are always included and description (0.25) and recommendation
\* (0.15) exactly when both findings have one.
C23_WeightedSumOfIncludedSignals ==
    (pc = "scored") =>
        RatEq(result.score,
              RatDiv(RatAdd(TextSum, RatMul(calculateFileOverlap(all[1].Files, all[2].Files),
                                            Weight(FileWeight))),
                     RatAdd(TextWeights, Weight(FileWeight))))

\* The overlap of two file lists as sets: 1 when both are empty, 0 when one
\* is, otherwise the common files over the size of the larger set.
SetOverlap(files1, files2) ==
    LET A == Range(files1)
        B == Range(files2)
        larger == IF Cardinality(A) > Cardinality(B) THEN Cardinality(A) ELSE Cardinality(B)
    IN  IF A = {} /\ B = {} THEN Rat(1, 1)
        ELSE IF A = {} \/ B = {} THEN Rat(0, 1)
        ELSE Rat(Cardinality(A \cap B), larger)

\* C24: the file signal that enters the score is the overlap of the file
\* sets, 1.0 for two empty lists and 0.0 when exactly one is empty, at the
\* weight 0.25: once the file step is over, score and weights are those of the
\* text signals plus that signal and its weight.
C24_FileSignalInScore ==
    (pc = "divide") =>
        /\ RatEq(result.weights, RatAdd(TextWeights, Weight(FileWeight)))
        /\ RatEq(result.score,
                 RatAdd(TextSum, RatMul(SetOverlap(all[1].Files, all[2].Files),
                                        Weight(FileWeight))))

-----------------------------------------------------------------------------
(* Merge on findings that carry descriptions and recommendations *)

\* Findings with one title and a common file, which differ in severity and
\* text; S3a has no text at all, and S3b merges with none of them.
TextPool ==
    {S3a, S3b,
     Finding("SEC-011", CategorySecurity, T_S3Lacks, SeverityLow, D_Rest, R_Kms, <<F_storage>>),
     Finding("SEC-012", CategorySecurity, T_S3Lacks, SeverityMedium, D_Policy, R_Deny,
             <<F_storage>>),
     Finding("SEC-013", CategorySecurity, T_S3Lacks, SeverityLow, D_Rest, R_Deny, <<F_storage>>)}

InitText ==
    /\ \E list \in UNION {[1..m -> TextPool] : m \in 0..MaxFindings} :
           findingArrays = <<list>>
    /\ all = <<>>
    /\ pc = "start"
    /\ i = 0
    /\ j = 0
    /\ merged = {}
    /\ base = NoFinding
    /\ result = <<>>
    /\ members = {}
    /\ clusters = <<>>
    /\ run = 1
    /\ first = <<>>
    /\ NoAnalysis
    /\ NoContext
    /\ NoFilter

SpecText == InitText /\ [][Next]_vars

\* The text that accumulates over the cluster c of the input: the text of
\* the representative, then, in input order, the text of every other member
\* that is not empty and not yet a substring of what has accumulated.
AccumulatedText(c, texts) ==
    LET acc[m \in Representative(c)..Len(texts)] ==
            IF m = Representative(c) THEN texts[m]
            ELSE IF m \in c /\ texts[m] # <<>> /\ ~Contains(acc[m - 1], texts[m])
                 THEN acc[m - 1] \o <<" ">> \o texts[m]
                 ELSE acc[m - 1]
    IN  acc[Len(texts)]

\* C25: the description, and likewise the recommendation, of every output is
\* the text accumulated over its cluster from the representative's text in
\* input order, and every member's text that is not empty occurs in it.
C25_TextAccumulatesInInputOrder ==
    Deduplicated =>
        \A k \in DOMAIN result :
            /\ result[k].Description =
                   AccumulatedText(clusters[k], [m \in DOMAIN all |-> all[m].Description])
            /\ result[k].Recommendation =
                   AccumulatedText(clusters[k], [m \in DOMAIN all |-> all[m].Recommendation])
            /\ \A m \in clusters[k] :
                   /\ Contains(result[k].Description, all[m].Description)
                   /\ Contains(result[k].Recommendation, all[m].Recommendation)

\* C26: the score is symmetric: calculateSimilarity and tokenSimilarity give
\* the same value with their arguments exchanged, and so does shouldMerge:
\* whether two findings merge does not depend on which of them is the anchor.
C26_ScoreSymmetric ==
    (pc = "scored") =>
        /\ RatEq(result.score, calculateSimilarity(all[2], all[1]))
        /\ RatEq(tokenSimilarity(all[1].Title, all[2].Title),
                 tokenSimilarity(all[2].Title, all[1].Title))
        /\ shouldMerge(all[1], all[2]) = shouldMerge(all[2], all[1])

\* The files named by the findings of a list.
FilesOf(list) == UNION {Range(list[k].Files) : k \in DOMAIN list}

\* C27: deduplicate neither loses nor invents data: every input finding is
\* absorbed into exactly one output, a non-empty input gives between one and
\* len(input) outputs, and the outputs name exactly the files the inputs name.
C27_NothingLostNothingInvented ==
    Deduplicated =>
        /\ Len(clusters) = Len(result)
        /\ \A m \in DOMAIN all :
               Cardinality({k \in DOMAIN clusters : m \in clusters[k]}) = 1
        /\ \A k \in DOMAIN clusters : clusters[k] # {} /\ clusters[k] \subseteq DOMAIN all
        /\ \A k \in DOMAIN result :
               /\ \E m \in clusters[k] : result[k].ID = all[m].ID
               /\ Range(result[k].Files) = UNION {Range(all[m].Files) : m \in clusters[k]}
        /\ (Len(all) > 0) => (1 <= Len(result) /\ Len(result) <= Len(all))
        /\ (Len(all) = 0) => (Len(result) = 0)
        /\ FilesOf(result) = FilesOf(all)

\* deduplicate has returned two outputs for three inputs, one of them a merge
\* of findings that name different files.
C27_Witness ==
    /\ Deduplicated
    /\ Len(all) = 3
    /\ Len(result) = 2
    /\ \E k \in DOMAIN result : \E m, n \in clusters[k] :
           /\ m # n
           /\ Range(all[m].Files) # Range(all[n].Files)
           /\ Range(all[m].Files) # {}
           /\ Range(all[n].Files) # {}

-----------------------------------------------------------------------------
\* The steps of NextAnalysis that hand no findings to Merge.
Synchronisation ==
    \/ NoScopes
    \/ StartScopes
    \/ \E s \in Range(scopes) : ScopeRun(s)
    \/ Collect
    \/ SkipScanners
    \/ NoScanners
    \/ StartScanners
    \/ \E s \in Range(defaultScanners) : ScannerRun(s)
    \/ WaitScanners
    \/ RangeResults
    \/ ScannersReturn

\* The steps AnalysisFails and AnalysisMerges, seen through the program
\* counters: runAnalysis returns and its goroutine sends.
AnalysisReturns ==
    /\ AllCollected
    /\ Len(copilotCh) < copilotChCap
    /\ apc' = [apc EXCEPT !["copilot"] = "done"]

\* The steps ReturnError and ReturnMerged, seen through the program counters.
MainReturns ==
    /\ BothSent
    /\ apc' = [apc EXCEPT !["main"] = "done"]

\* The fan-out and fan-in of runAnalysisWithScanners under a scheduler that
\* runs a goroutine that can take a step: a goroutine that is runnable stays
\* runnable until it runs.
SpecFanIn ==
    /\ InitAnalysis
    /\ [][NextAnalysis]_vars
    /\ WF_vars(Synchronisation)
    /\ WF_apc(AnalysisReturns)
    /\ WF_apc(MainReturns)

\* A collector whose Run is about to return finds room in its channel.
SendNeverWaits ==
    /\ \A k \in DOMAIN enabledScopes :
           apc[enabledScopes[k]] = "run" => Len(resultCh) < resultChCap
    /\ \A k \in DOMAIN enabledScanners :
           apc[enabledScanners[k]] = "run" => Len(results) < resultsCap

\* The number of positions of list that hold x.
Count(list, x) == Cardinality({k \in DOMAIN list : list[k] = x})

\* The enabled scanners whose Run returned no error.
Succeeded == {s \in Range(enabledScanners) : ~scannerRun[s].err}

\* Once runAnalysis is past its receive loop it holds one result of every
\* enabled scope and the channel is empty; once RunAll has returned it has
\* taken the findings of every successful scanner once and nothing else.
OneResultEach ==
    /\ (apc["copilot"] = "done" /\ Len(enabledScopes) > 0) =>
           /\ resultCh = <<>>
           /\ Len(allResults) = Len(enabledScopes)
           /\ \A k \in DOMAIN enabledScopes :
                  Count([n \in DOMAIN allResults |-> allResults[n].scope],
                        enabledScopes[k]) = 1
    /\ (apc["scanners"] = "done" /\ ~skipScanners) =>
           /\ results = <<>>
           /\ \A s \in Succeeded :
                  \A k \in DOMAIN scannerRun[s].findings :
                      Count(scanFindings, scannerRun[s].findings[k]) = 1
           /\ \A k \in DOMAIN scanFindings :
                  \E s \in Succeeded : scanFindings[k] \in Range(scannerRun[s].findings)

\* C28: the fan-out and fan-in neither deadlocks nor drops a result: a
\* collector never waits to send, the caller ends with one result of every
\* enabled scope and scanner, and in every interleaving the call returns.
C28_FanInCompletes ==
    /\ [](SendNeverWaits /\ OneResultEach)
    /\ <>(apc["main"] = "done")

\* The call has returned findings with every scope and every scanner enabled.
C28_Witness ==
    /\ apc["main"] = "done"
    /\ Len(enabledScopes) = Len(scopes)
    /\ Len(enabledScanners) = Len(defaultScanners)
    /\ ~skipScanners
    /\ ~ret.err
    /\ Len(allResults) = Len(scopes)
    /\ Len(scanFindings) > 0

-----------------------------------------------------------------------------
\* C29: whenever delegateIssues has returned, every issue that carries the
\* delegated label has been assigned to the coding agent.
C29_LabeledImpliesAssigned ==
    pc = "idle" => \A n \in labeled : assigned[n] >= 1

-----------------------------------------------------------------------------
(* MergeWithContext with the Copilot client as the deduplicator *)

\* The output of the command is a sequence of lines.  A line is its text, or
\* the JSON object of a finding (with the comma that follows it, if any).
\* In a text, "fence:" stands for the three backquotes of a code fence.
MaxLines == 4

Line(text) == [text |-> text, value |-> NoFinding]

Object(f) == [text |-> "{}", value |-> f]

Lines ==
    {Line("fence:json"), Line("fence:"), Line("["), Line("]"), Line(""), Line("Done."),
     Object(S3a)}

Outputs == UNION {[1..n -> Lines] : n \in 0..MaxLines}

\* strings.TrimSpace on the lines of a text: blank lines at either end go.
TrimBlank(lines) ==
    LET kept == {k \in DOMAIN lines : lines[k].text # ""}
    IN  IF kept = {} THEN <<>>
        ELSE SubSeq(lines, CHOOSE k \in kept : \A m \in kept : k <= m,
                           CHOOSE k \in kept : \A m \in kept : m <= k)

\* Whether a line begins with a code fence.
Fence(line) == line.text \in {"fence:json", "fence:"}

\* The first match of the regular expression: the opening json fence at line
\* a, the closing one at the first line from a + 2 on that begins with a fence.
FenceMatches(output) ==
    {<<a, b>> \in (DOMAIN output) \X (DOMAIN output) :
        /\ output[a].text = "fence:json"
        /\ b >= a + 2
        /\ Fence(output[b])
        /\ \A m \in (a + 2)..(b - 1) : ~Fence(output[m])}

FirstMatch(matches) == CHOOSE m \in matches : \A n \in matches : m[1] <= n[1]

\* The fallback of extractJSON: the scanner loop over the lines.
scanLines(output) ==
    LET scan[k \in 0..Len(output)] ==
            IF k = 0 THEN [inJSON |-> FALSE, jsonLines |-> <<>>, stop |-> FALSE]
            ELSE IF scan[k - 1].stop THEN scan[k - 1]
            ELSE IF output[k].text = "["
                 THEN [inJSON |-> TRUE, jsonLines |-> <<output[k]>>, stop |-> FALSE]
            ELSE IF scan[k - 1].inJSON
                 THEN [inJSON |-> TRUE,
                       jsonLines |-> Append(scan[k - 1].jsonLines, output[k]),
                       stop |-> output[k].text = "]"]
            ELSE scan[k - 1]
    IN  scan[Len(output)].jsonLines

\* extractJSON: the lines of the JSON text, <<>> for the empty string.
extractJSON(output) ==
    IF FenceMatches(output) # {}
    THEN TrimBlank(SubSeq(output, FirstMatch(FenceMatches(output))[1] + 1,
                                  FirstMatch(FenceMatches(output))[2] - 1))
    ELSE scanLines(output)

\* json.Unmarshal into []findings.Finding: the text is an array of objects;
\* blank lines inside it do not count.
Unmarshal(jsonStr) ==
    LET lines == SelectSeq(jsonStr, LAMBDA l : l.text # "")
    IN  IF /\ Len(lines) >= 2
           /\ lines[1].text = "["
           /\ lines[Len(lines)].text = "]"
           /\ \A k \in 2..(Len(lines) - 1) : lines[k].text = "{}"
        THEN Found([k \in 1..(Len(lines) - 2) |-> lines[k + 1].value])
        ELSE Failed

\* Client.RunAnalysis on a command that fails, or that writes output.
RunAnalysis(runFails, output) ==
    IF runFails THEN Failed
    ELSE IF extractJSON(output) = <<>> THEN Found(<<>>)
    ELSE Unmarshal(extractJSON(output))

\* Client.Deduplicate, which is Client.DeduplicateFindings.
DeduplicateFindings(findings, runFails, output) ==
    IF Len(findings) <= 1 THEN Found(findings) ELSE RunAnalysis(runFails, output)

ClientPool == {S3a, S3b, Pipe1}

InitClient ==
    /\ findingArrays \in {<<a, b>> : a, b \in UNION {[1..n -> ClientPool] : n \in 0..1}}
    /\ deduplicator = "client"
    /\ err = FALSE
    /\ stdout = NoOutput
    /\ heap = <<>>
    /\ all = <<>>
    /\ pc = "start"
    /\ i = 0
    /\ j = 0
    /\ merged = <<>>
    /\ base = NoFinding
    /\ result = <<>>
    /\ members = {}
    /\ clusters = <<>>
    /\ run = 1
    /\ first = <<>>
    /\ NoAnalysis
    /\ NoFilter

\* The list is too short for the command to be run.
ClientReturnsInput ==
    /\ pc = "deduplicate"
    /\ deduplicator = "client"
    /\ Len(all) <= 1
    /\ merged' = DeduplicateFindings(all, FALSE, <<>>).findings
    /\ err' = FALSE
    /\ pc' = "sort"
    /\ UNCHANGED <<findingArrays, all, result, deduplicator, stdout>>
    /\ UNCHANGED outsideContext

\* The command runs and Deduplicate returns no error: its list is used.
ClientSucceeds ==
    /\ pc = "deduplicate"
    /\ deduplicator = "client"
    /\ Len(all) > 1
    /\ \E output \in Outputs :
          /\ ~DeduplicateFindings(all, FALSE, output).err
          /\ merged' = DeduplicateFindings(all, FALSE, output).findings
          /\ stdout' = [ran |-> TRUE, lines |-> output]
    /\ err' = FALSE
    /\ pc' = "sort"
    /\ UNCHANGED <<findingArrays, all, result, deduplicator>>
    /\ UNCHANGED outsideContext

\* The command fails, or its JSON does not parse: fallback to local grouping.
ClientFails ==
    /\ pc = "deduplicate"
    /\ deduplicator = "client"
    /\ Len(all) > 1
    /\ \E runFails \in BOOLEAN, output \in Outputs :
          /\ DeduplicateFindings(all, runFails, output).err
          /\ stdout' = IF runFails THEN NoOutput ELSE [ran |-> TRUE, lines |-> output]
    /\ merged' = groupAndMerge(all)
    /\ err' = TRUE
    /\ pc' = "sort"
    /\ UNCHANGED <<findingArrays, all, result, deduplicator>>
    /\ UNCHANGED outsideContext

NextClient ==
    \/ ContextStart
    \/ ClientReturnsInput
    \/ ClientSucceeds
    \/ ClientFails
    \/ ContextSort

SpecClient == InitClient /\ [][NextClient]_vars

\* C30: when the output of the command holds no extractable JSON array,
\* Deduplicate returns an error, MergeWithContext returns what local grouping
\* gives, and a list that is not empty does not come back empty.
C30_UnparseableIsFailure ==
    (pc = "done" /\ deduplicator = "client" /\ stdout.ran
        /\ extractJSON(stdout.lines) = <<>>) =>
        /\ err
        /\ result = SortBySeverity(groupAndMerge(all))
        /\ result # <<>>

=============================================================================
